---- MODULE Spec2Model ----
(***************************************************************************)
(* Model of github.com/bunnier/circuit: the sliding-window Metric and its  *)
(* aggregator goroutine (breaker/internal/metric.go), the CutBreaker state *)
(* machine (breaker/cutbreaker.go) and the Command wrapper (command.go).   *)
(* Time is a discrete clock counted in whole seconds.                      *)
(***************************************************************************)
EXTENDS Integers, Sequences, FiniteSets, TLC

\* ------------------------------------------------------------------ bounds
MaxTime == 2          \* the clock stops advancing at this second
MaxOps == 6           \* breaker operations the callers may start in one run
\* Command executions the callers may start in one run: an execution makes two
\* breaker operations, Allow and the outcome it records
MaxExec == MaxOps \div 2
MaxClose == 2     \* calls of Command.Close
MaxElapse == MaxTime + 1   \* the clock of the producers of the Metric stops here
MaxCalls == MaxOps \div 2   \* calls of the Metric's methods by its producers
\* summaries given to CutBreaker.allow count up to MaxTotal requests, those given
\* to SreBreaker.allow up to MaxSreTotal; RGrain values of rand.Float64()
MaxTotal == 20
MaxSreTotal == 3
RGrain == 4

\* ------------------------------------------------------ program constants
Closed == 0
Openning == 1
HalfOpening == 2
channelBufferSize == 10

\* configuration of the breaker under test (option functions)
minRequestThreshold == 1
errorThresholdPercentage == 50
sleepWindow == 1
timeWindow == 2

\* configuration of the Command under test and of its callers
timeout == 2          \* Command.timeout (WithCommandTimeout)
\* time left on a caller's deadline when run starts: less than the timeout
callerBudget == timeout - 1
name == "test"        \* Command.name

Callers == {"c1", "c2"}

\* the calls of the wrapped functions that are followed
TaskIds == {1, 2}
\* time.Time{}: the zero time lies further in the past than any window.
ZeroTime == 0 - 1000
NoTime == 0 - 1

Kinds == {"success", "timeout", "failure", "fallbackSuccess", "fallbackFailure", "reset"}

VARIABLES
    now,              \* wall clock (seconds)
    internalStatus,   \* CutBreaker.internalStatus
    chans,            \* Metric.successCh .. resetCh: kind -> queue of timestamps
    makeSummaryCh,    \* Metric.makeSummaryCh: number of queued requests
    getSummaryCh,     \* Metric.getSummaryCh: queue of summaries
    counters,         \* Metric.counters: ring of unit counters
    lastExecuteTime,  \* Metric.lastExecuteTime
    cs,               \* per caller: position in the called method and its locals
    opsLeft,          \* operations still allowed to start
    resetsDone,       \* history: resets the aggregator has processed
    closeMark,        \* history: resets enqueued up to the last HalfOpen->Closed swap
    openedAt,         \* history: time of the last swap to Open
    probes,           \* history: half-open admissions since the last Success/Failure/Timeout step
    hasFallback,      \* command.fallback != nil
    ex,               \* per caller: the locals of its ContextExecute and their history
    execsLeft,        \* executions still allowed to start
    closeCalls,       \* history: calls of Command.Close, the first of which cancels Metric.ctx
    running,          \* the goroutine of Metric.run has not returned
    pending,          \* history: what callers of the Metric put in its channels, in the
                      \*   order they did, and the aggregator has not taken yet
    producers,        \* per caller of the Metric: position in the called method
    applied,          \* history: the producers' events the aggregator has applied since
                      \*   the last reset, counted by kind and timestamp
    built,            \* the breaker a constructor returned: its kind and its fields
    decision,         \* history: the last allow(summary) of that breaker, with the
                      \*   summary and the random number it was given
    tasks,            \* per call of a wrapped function: its channels, its goroutine
                      \*   and its select
    open              \* a breaker that has opened and its callers, with times kept
                      \*   as ages

cmdVars == <<hasFallback, ex, execsLeft>>

vars == <<now, internalStatus, chans, makeSummaryCh, getSummaryCh, counters,
          lastExecuteTime, cs, opsLeft, resetsDone, closeMark, openedAt, probes,
          hasFallback, ex, execsLeft, closeCalls, running, pending, producers,
          applied, built, decision, tasks, open>>

mVars == <<closeCalls, running, pending, producers, applied>>

sVars == <<built, decision, tasks, open>>

\* ------------------------------------------------------------------ Metric

NoCounter == [nil |-> TRUE]

ZeroCounter ==
    [nil |-> FALSE, Success |-> 0, Timeout |-> 0, Failure |-> 0,
     FallbackSuccess |-> 0, FallbackFailure |-> 0, LastRecordTime |-> ZeroTime]

\* make([]*UnitCounter, m.timeWindow/time.Second)
NewCounters == [i \in 0..(timeWindow - 1) |-> NoCounter]

\* now.Second() % len(m.counters)
CounterIndex(t) == (t % 60) % timeWindow

\* getCurrentCounter: the ring after the slot of t was allocated or recycled
\* and stamped with t.
getCurrentCounter(ring, t) ==
    LET index == CounterIndex(t)
        cur == ring[index]
        fresh == IF cur.nil THEN ZeroCounter
                 ELSE IF t # cur.LastRecordTime THEN ZeroCounter
                 ELSE cur
    IN [ring EXCEPT ![index] = [fresh EXCEPT !.LastRecordTime = t]]

Bump(ring, t, field) ==
    LET r == getCurrentCounter(ring, t)
    IN [r EXCEPT ![CounterIndex(t)][field] = @ + 1]

doSuccess(ring, t) == Bump(ring, t, "Success")
doFailure(ring, t) == Bump(ring, t, "Failure")
doTimeout(ring, t) == Bump(Bump(ring, t, "Timeout"), t, "Failure")
doFallbackSuccess(ring, t) == Bump(ring, t, "FallbackSuccess")
doFallbackFailure(ring, t) == Bump(ring, t, "FallbackFailure")

\* mutant: a unit is never too old
InWindowAlways(c, t) == ~c.nil

\* time.Since(counter.LastRecordTime) > m.timeWindow: the unit is skipped
InWindow(c, t) == ~c.nil /\ ~(t - c.LastRecordTime > timeWindow)

RECURSIVE SumField(_, _, _, _)
SumField(ring, t, field, i) ==
    IF i < 0 THEN 0
    ELSE (IF InWindow(ring[i], t) THEN ring[i][field] ELSE 0)
         + SumField(ring, t, field, i - 1)

\* mutant: the quotient without the test for a total of zero
ErrorPercentageUnguarded(failure, total) == [num |-> failure * 100, den |-> total]

\* float64(Failure) / float64(Total) * 100, kept as an exact fraction
ErrorPercentageOf(failure, total) ==
    IF total = 0 THEN [num |-> 0, den |-> 1]
    ELSE [num |-> failure * 100, den |-> total]

\* a < b for a fraction a and a whole number b
FracLess(a, b) == a.num < b * a.den

makeSummary(ring, t, lastExec, gen) ==
    LET hi == timeWindow - 1
        s == SumField(ring, t, "Success", hi)
        f == SumField(ring, t, "Failure", hi)
    IN [Success |-> s,
        Timeout |-> SumField(ring, t, "Timeout", hi),
        Failure |-> f,
        FallbackSuccess |-> SumField(ring, t, "FallbackSuccess", hi),
        FallbackFailure |-> SumField(ring, t, "FallbackFailure", hi),
        Total |-> s + f,
        ErrorPercentage |-> ErrorPercentageOf(f, s + f),
        LastExecuteTime |-> lastExec,
        gen |-> gen]

NoSummary == [none |-> TRUE]

\* history: the log holds an entry of kind k
Waiting(log, k) == \E i \in 1..Len(log) : log[i].kind = k

\* history: nothing applied
NoneApplied == [k \in Kinds \ {"reset"} |-> [t \in 0..MaxElapse |-> 0]]

\* history: the first entry of kind k leaves the log (each channel is a FIFO)
RECURSIVE Taken(_, _)
Taken(log, k) ==
    IF log = <<>> THEN <<>>
    ELSE IF Head(log).kind = k THEN Tail(log)
    ELSE <<Head(log)>> \o Taken(Tail(log), k)

\* One iteration of the select loop of Metric.run: an event channel.
RunEvent(k) ==
    /\ running
    /\ k \in Kinds \ {"reset"}
    /\ chans[k] # <<>>
    /\ pending' = Taken(pending, k)
    /\ applied' = IF Waiting(pending, k)
                  THEN [applied EXCEPT ![k][Head(chans[k])] = @ + 1]
                  ELSE applied
    /\ LET t == Head(chans[k])
       IN /\ counters' = (CASE k = "success" -> doSuccess(counters, t)
                            [] k = "timeout" -> doTimeout(counters, t)
                            [] k = "failure" -> doFailure(counters, t)
                            [] k = "fallbackSuccess" -> doFallbackSuccess(counters, t)
                            [] k = "fallbackFailure" -> doFallbackFailure(counters, t))
          /\ lastExecuteTime' = t
    /\ chans' = [chans EXCEPT ![k] = Tail(@)]
    /\ UNCHANGED <<sVars, closeCalls, running, producers, now, internalStatus, makeSummaryCh, getSummaryCh, cs, opsLeft,
                   resetsDone, closeMark, openedAt, probes, cmdVars>>

\* mutant: a reset that leaves the units as they are
doResetKeeps(ring) == ring

\* m.counters = make([]*UnitCounter, m.timeWindow/time.Second)
doReset(ring) == NewCounters

\* case now := <-m.resetCh: m.doReset(now)
RunReset ==
    /\ running
    /\ chans["reset"] # <<>>
    /\ pending' = Taken(pending, "reset")
    /\ applied' = NoneApplied
    /\ chans' = [chans EXCEPT !["reset"] = Tail(@)]
    /\ counters' = doReset(counters)
    /\ resetsDone' = resetsDone + 1
    /\ UNCHANGED <<sVars, closeCalls, running, producers, now, internalStatus, makeSummaryCh, getSummaryCh, lastExecuteTime,
                   cs, opsLeft, closeMark, openedAt, probes, cmdVars>>

\* case <-m.makeSummaryCh: m.makeSummary()
RunMakeSummary ==
    /\ running
    /\ makeSummaryCh > 0
    /\ pending' = Taken(pending, "makeSummary")
    /\ applied' = applied
    /\ Len(getSummaryCh) < channelBufferSize
    /\ makeSummaryCh' = makeSummaryCh - 1
    /\ getSummaryCh' = Append(getSummaryCh,
                              makeSummary(counters, now, lastExecuteTime, resetsDone))
    /\ UNCHANGED <<sVars, closeCalls, running, producers, now, internalStatus, chans, counters, lastExecuteTime, cs, opsLeft,
                   resetsDone, closeMark, openedAt, probes, cmdVars>>

\* -------------------------------------------------------------- CutBreaker

\* a < b or a = b for a fraction a and a whole number b
FracLeq(a, b) == a.num <= b * a.den

\* mutant: the error percentage is compared with <= instead of <
ClosedAdmitsInclusive(summary) ==
    \/ summary.Total < minRequestThreshold
    \/ FracLeq(summary.ErrorPercentage, errorThresholdPercentage)

\* summary.Total < b.minRequestThreshold ||
\* summary.ErrorPercentage < b.errorThresholdPercentage
ClosedAdmits(summary) ==
    \/ summary.Total < minRequestThreshold
    \/ FracLess(summary.ErrorPercentage, errorThresholdPercentage)

\* mutant: the sleep window is compared with <= instead of <
SleepNotElapsedInclusive(summary, t) == t - summary.LastExecuteTime <= sleepWindow

\* time.Since(summary.LastExecuteTime) < b.sleepWindow
SleepNotElapsed(summary, t) == t - summary.LastExecuteTime < sleepWindow

\* mutant: the swap reports success whatever the status word holds
CasOkAlways(cur, old) == TRUE

\* atomic.CompareAndSwapInt32(&b.internalStatus, old, new)
CasOk(cur, old) == cur = old

\* mutant: atomic.StoreInt32(&b.internalStatus, new)
CasValStore(cur, old, new) == new

CasVal(cur, old, new) == IF cur = old THEN new ELSE cur

\* The branch the switch of CutBreaker.allow takes on the status it read.
allowBranch(st, summary, t) ==
    CASE st = Closed ->
            IF ClosedAdmits(summary) THEN "admit_closed" ELSE "cas_open"
      [] st = HalfOpening -> "reject_half"
      [] st = Openning ->
            IF SleepNotElapsed(summary, t) THEN "reject_open" ELSE "cas_half"

\* ------------------------------------------------------------------ errors
\* An error is the list of the parts of its message, which Error() joins with
\* ": ", and the set of sentinels errors.Is finds in its chain.

NoErr == [text |-> <<>>, is |-> {}]
ErrTimeout == [text |-> <<"command: timeout">>, is |-> {"ErrTimeout"}]
ErrFallback == [text |-> <<"command: unavailable">>, is |-> {"ErrFallback"}]
Canceled == [text |-> <<"context canceled">>, is |-> {"Canceled"}]
RunErr == [text |-> <<"run failed">>, is |-> {"RunErr"}]
FallbackErr == [text |-> <<"fallback failed">>, is |-> {"FallbackErr"}]

\* fmt.Errorf("%s: %w", command.name, err)
Errorf(prefix, err) == [text |-> <<prefix>> \o err.text, is |-> err.is]

\* mutant: the error of a rejected call leaves the status out
OpenErrNoStatus(prefix, statusMsg) == Errorf(prefix, ErrFallback)

\* fmt.Errorf("%s: %s: %w", command.name, statusMsg, ErrFallback)
OpenErr(prefix, statusMsg) ==
    [text |-> <<prefix, statusMsg>> \o ErrFallback.text, is |-> ErrFallback.is]

\* --------------------------------------------------- outcomes of a function
Nil == "nil"
NoOutcome == [kind |-> "none", val |-> Nil, err |-> NoErr]
Ret(val, err) == [kind |-> "return", val |-> val, err |-> err]
\* a panic and the payload it carries
Panic == [kind |-> "panic", val |-> "panicVal", err |-> NoErr]

\* what the functions handed to NewCommand may do when they finish
RunOutcomes == {Ret("runVal", NoErr), Ret("runVal", RunErr), Panic}
FallbackOutcomes == {Ret("fallbackVal", NoErr), Ret(Nil, FallbackErr), Panic}

Params == {"param"}
\* the context handed to ContextExecute: context.Background() (Execute), one
\* with a deadline, or one its owner may cancel
Modes == {"background", "deadline", "cancel"}

Min(a, b) == IF a < b THEN a ELSE b

\* mutant: the run context takes the Command's timeout alone
CtxDeadlineDetached(callerDeadline, t) == t + timeout

\* context.WithTimeout(ctx, command.timeout): the earlier of the caller's
\* deadline and now + timeout
CtxDeadline(callerDeadline, t) ==
    IF callerDeadline = NoTime THEN t + timeout
    ELSE Min(callerDeadline, t + timeout)

\* ----------------------------------------------------------------- callers
\* A caller uses the breaker the way Command.ContextExecute does: Allow, and
\* when admitted exactly one of Success, Failure, Timeout.  It calls the
\* breaker directly (ex[c].active is FALSE) or through a Command.

IdleCaller ==
    [pc |-> "idle", summary |-> NoSummary, pass |-> FALSE, msg |-> "", prev |-> "none",
     calls |-> <<>>, sent |-> <<>>]

NoExec ==
    [active |-> FALSE, param |-> Nil, mode |-> "background",
     admitted |-> FALSE, deadline |-> NoTime, runStart |-> NoTime,
     waited |-> NoTime, how |-> "none", fallbackStart |-> NoTime,
     runCalls |-> 0, fallbackCalls |-> 0, fallbackParam |-> Nil, fallbackErr |-> NoErr,
     runOut |-> NoOutcome, fallbackOut |-> NoOutcome, res |-> NoOutcome,
     ret |-> NoOutcome]

\* history: resets enqueued so far
ResetsSent == resetsDone + Len(chans["reset"])

\* c takes a step to r; a step of c ends every other caller's undisturbed run.
Step(c, r) ==
    cs' = [d \in Callers |-> IF d = c THEN r ELSE [cs[d] EXCEPT !.prev = "none"]]

\* history: the Allow a caller starts right after its own half-open outcome
After(prev) ==
    CASE prev = "halfOpenSuccess" -> "afterHalfOpenSuccess"
      [] prev = "halfOpenFailure" -> "afterHalfOpenFailure"
      [] OTHER -> "none"

\* history of an execution: the breaker methods it called, the events it sent
Logged(c, log, entry) == IF ex[c].active THEN Append(log, entry) ELSE log

CanAllow(c) == ~ex[c].active /\ cs[c].pc = "idle" /\ ~cs[c].pass /\ opsLeft > 0

\* c is about to call a method that records an outcome
CanRecord(c, recPc) ==
    IF ex[c].active THEN cs[c].pc = recPc
    ELSE cs[c].pc = "idle" /\ cs[c].pass /\ opsLeft > 0

OpsAfter(c) == IF ex[c].active THEN opsLeft ELSE opsLeft - 1

\* where the caller continues when the breaker method returns
Back(c, execPc) == IF ex[c].active THEN execPc ELSE "idle"

\* CutBreaker.Allow: summary := b.metric.Summary(), first half: m.makeSummaryCh <- struct{}{}
AllowCall(c) ==
    /\ CanAllow(c)
    /\ makeSummaryCh < channelBufferSize
    /\ makeSummaryCh' = makeSummaryCh + 1
    /\ opsLeft' = opsLeft - 1
    /\ Step(c, [cs[c] EXCEPT !.pc = "allow_wait", !.msg = "", !.summary = NoSummary,
                             !.prev = After(@)])
    /\ UNCHANGED <<sVars, mVars, now, internalStatus, chans, getSummaryCh, counters, lastExecuteTime,
                   resetsDone, closeMark, openedAt, probes, cmdVars>>

\* Metric.Summary, second half: return <-m.getSummaryCh
AllowRecv(c) ==
    /\ cs[c].pc = "allow_wait"
    /\ getSummaryCh # <<>>
    /\ getSummaryCh' = Tail(getSummaryCh)
    /\ Step(c, [cs[c] EXCEPT !.pc = "allow_switch", !.summary = Head(getSummaryCh)])
    /\ UNCHANGED <<sVars, mVars, now, internalStatus, chans, makeSummaryCh, counters, lastExecuteTime,
                   opsLeft, resetsDone, closeMark, openedAt, probes, cmdVars>>

\* return pass, msg (a Command has no use for the summary Allow decided on)
Returned(c, pass, msg) ==
    [cs[c] EXCEPT !.pc = Back(c, "x_allowed"), !.pass = pass, !.msg = msg,
                  !.summary = IF ex[c].active THEN NoSummary ELSE @]

\* CutBreaker.allow: switch b.internalStatus
AllowSwitch(c) ==
    /\ cs[c].pc = "allow_switch"
    /\ LET br == allowBranch(internalStatus, cs[c].summary, now)
       IN Step(c, CASE br = "admit_closed" -> Returned(c, TRUE, "closed")
                    [] br = "reject_half" -> Returned(c, FALSE, "half-open")
                    [] br = "reject_open" -> Returned(c, FALSE, "open")
                    [] br = "cas_open" -> [cs[c] EXCEPT !.pc = "allow_cas_open"]
                    [] br = "cas_half" -> [cs[c] EXCEPT !.pc = "allow_cas_half"])
    /\ UNCHANGED <<sVars, mVars, now, internalStatus, chans, makeSummaryCh, getSummaryCh, counters,
                   lastExecuteTime, opsLeft, resetsDone, closeMark, openedAt, probes,
                   cmdVars>>

\* atomic.CompareAndSwapInt32(&b.internalStatus, Closed, Openning); return false, "open"
AllowCasOpen(c) ==
    /\ cs[c].pc = "allow_cas_open"
    /\ internalStatus' = CasVal(internalStatus, Closed, Openning)
    /\ openedAt' = IF CasOk(internalStatus, Closed) THEN now ELSE openedAt
    /\ Step(c, Returned(c, FALSE, "open"))
    /\ UNCHANGED <<sVars, mVars, now, chans, makeSummaryCh, getSummaryCh, counters, lastExecuteTime,
                   opsLeft, resetsDone, closeMark, probes, cmdVars>>

\* return atomic.CompareAndSwapInt32(&b.internalStatus, Openning, HalfOpening), "half-open"
AllowCasHalf(c) ==
    /\ cs[c].pc = "allow_cas_half"
    /\ internalStatus' = CasVal(internalStatus, Openning, HalfOpening)
    /\ probes' = IF CasOk(internalStatus, Openning) THEN probes + 1 ELSE probes
    /\ Step(c, Returned(c, CasOk(internalStatus, Openning), "half-open"))
    /\ UNCHANGED <<sVars, mVars, now, chans, makeSummaryCh, getSummaryCh, counters, lastExecuteTime,
                   opsLeft, resetsDone, closeMark, openedAt, cmdVars>>

\* CutBreaker.Summary: summary := b.metric.Summary(), first half
SummaryOpCall(c) ==
    /\ CanAllow(c)
    /\ makeSummaryCh < channelBufferSize
    /\ makeSummaryCh' = makeSummaryCh + 1
    /\ opsLeft' = opsLeft - 1
    /\ Step(c, [cs[c] EXCEPT !.pc = "sum_wait", !.msg = "", !.summary = NoSummary,
                             !.prev = "none"])
    /\ UNCHANGED <<sVars, mVars, now, internalStatus, chans, getSummaryCh, counters, lastExecuteTime,
                   resetsDone, closeMark, openedAt, probes, cmdVars>>

\* Metric.Summary, second half: return <-m.getSummaryCh
SummaryOpRecv(c) ==
    /\ cs[c].pc = "sum_wait"
    /\ getSummaryCh # <<>>
    /\ getSummaryCh' = Tail(getSummaryCh)
    /\ Step(c, [cs[c] EXCEPT !.pc = "sum_switch", !.summary = Head(getSummaryCh)])
    /\ UNCHANGED <<sVars, mVars, now, internalStatus, chans, makeSummaryCh, counters, lastExecuteTime,
                   opsLeft, resetsDone, closeMark, openedAt, probes, cmdVars>>

\* the BreakerSummary that CutBreaker.Summary returns: Status is statusStr, the
\* numbers are those of the summary; the caller is admitted to nothing
Reported(c, msg) == [cs[c] EXCEPT !.pc = "idle", !.pass = FALSE, !.msg = msg]

\* _, statusStr := b.allow(summary): switch b.internalStatus
SummaryOpSwitch(c) ==
    /\ cs[c].pc = "sum_switch"
    /\ LET br == allowBranch(internalStatus, cs[c].summary, now)
       IN Step(c, CASE br = "admit_closed" -> Reported(c, "closed")
                    [] br = "reject_half" -> Reported(c, "half-open")
                    [] br = "reject_open" -> Reported(c, "open")
                    [] br = "cas_open" -> [cs[c] EXCEPT !.pc = "sum_cas_open"]
                    [] br = "cas_half" -> [cs[c] EXCEPT !.pc = "sum_cas_half"])
    /\ UNCHANGED <<sVars, mVars, now, internalStatus, chans, makeSummaryCh, getSummaryCh, counters,
                   lastExecuteTime, opsLeft, resetsDone, closeMark, openedAt, probes,
                   cmdVars>>

\* b.allow inside Summary: atomic.CompareAndSwapInt32(&b.internalStatus, Closed, Openning)
SummaryOpCasOpen(c) ==
    /\ cs[c].pc = "sum_cas_open"
    /\ internalStatus' = CasVal(internalStatus, Closed, Openning)
    /\ openedAt' = IF CasOk(internalStatus, Closed) THEN now ELSE openedAt
    /\ Step(c, Reported(c, "open"))
    /\ UNCHANGED <<sVars, mVars, now, chans, makeSummaryCh, getSummaryCh, counters, lastExecuteTime,
                   opsLeft, resetsDone, closeMark, probes, cmdVars>>

\* b.allow inside Summary:
\* atomic.CompareAndSwapInt32(&b.internalStatus, Openning, HalfOpening); the
\* boolean is dropped, so the swap admits no call
SummaryOpCasHalf(c) ==
    /\ cs[c].pc = "sum_cas_half"
    /\ internalStatus' = CasVal(internalStatus, Openning, HalfOpening)
    /\ Step(c, Reported(c, "half-open"))
    /\ UNCHANGED <<sVars, mVars, now, chans, makeSummaryCh, getSummaryCh, counters, lastExecuteTime,
                   opsLeft, resetsDone, closeMark, openedAt, probes, cmdVars>>

\* mutant: a send that does not wait for room
RoomUnchecked(k) == TRUE

Room(k) == Len(chans[k]) < channelBufferSize
Send(k) == chans' = [chans EXCEPT ![k] = Append(@, now)]

\* The locals of a caller that starts recording an outcome through `method`.
Recording(c, pc, method) ==
    [cs[c] EXCEPT !.pc = pc, !.summary = NoSummary, !.prev = "none",
                  !.calls = Logged(c, @, method)]

\* The locals of a caller whose breaker method has sent event k and returns.
Recorded(c, execPc, k) ==
    [cs[c] EXCEPT !.pc = Back(c, execPc), !.pass = FALSE, !.sent = Logged(c, @, k)]

\* CutBreaker.Success: if b.internalStatus == HalfOpening
SuccessCall(c) ==
    /\ CanRecord(c, "rec_success")
    /\ opsLeft' = OpsAfter(c)
    /\ probes' = 0
    /\ Step(c, Recording(c, IF internalStatus = HalfOpening
                            THEN "succ_reset" ELSE "succ_send", "Success"))
    /\ UNCHANGED <<sVars, mVars, now, internalStatus, chans, makeSummaryCh, getSummaryCh, counters,
                   lastExecuteTime, resetsDone, closeMark, openedAt, cmdVars>>

\* b.metric.Reset(): m.resetCh <- time.Now()
SuccessReset(c) ==
    /\ cs[c].pc = "succ_reset"
    /\ Room("reset")
    /\ Send("reset")
    /\ probes' = 0
    /\ Step(c, [cs[c] EXCEPT !.pc = "succ_cas"])
    /\ UNCHANGED <<sVars, mVars, now, internalStatus, makeSummaryCh, getSummaryCh, counters,
                   lastExecuteTime, opsLeft, resetsDone, closeMark, openedAt, cmdVars>>

\* atomic.CompareAndSwapInt32(&b.internalStatus, HalfOpening, Closed)
SuccessCas(c) ==
    /\ cs[c].pc = "succ_cas"
    /\ internalStatus' = CasVal(internalStatus, HalfOpening, Closed)
    /\ closeMark' = IF CasOk(internalStatus, HalfOpening) THEN ResetsSent ELSE closeMark
    /\ probes' = 0
    /\ Step(c, [cs[c] EXCEPT !.pc = "succ_send",
                             !.prev = IF CasOk(internalStatus, HalfOpening)
                                         /\ cs[c].msg = "half-open"
                                      THEN "halfOpenSuccess" ELSE "none"])
    /\ UNCHANGED <<sVars, mVars, now, chans, makeSummaryCh, getSummaryCh, counters, lastExecuteTime,
                   opsLeft, resetsDone, openedAt, cmdVars>>

\* b.metric.Success(): m.successCh <- time.Now()
SuccessSend(c) ==
    /\ cs[c].pc = "succ_send"
    /\ Room("success")
    /\ Send("success")
    /\ probes' = 0
    /\ Step(c, Recorded(c, "x_recorded", "success"))
    /\ UNCHANGED <<sVars, mVars, now, internalStatus, makeSummaryCh, getSummaryCh, counters,
                   lastExecuteTime, opsLeft, resetsDone, closeMark, openedAt, cmdVars>>

\* CutBreaker.Failure / CutBreaker.Timeout, first statement:
\* atomic.CompareAndSwapInt32(&b.internalStatus, HalfOpening, Openning)
FailCas(c, recPc, sendPc, method) ==
    /\ CanRecord(c, recPc)
    /\ opsLeft' = OpsAfter(c)
    /\ internalStatus' = CasVal(internalStatus, HalfOpening, Openning)
    /\ openedAt' = IF CasOk(internalStatus, HalfOpening) THEN now ELSE openedAt
    /\ probes' = 0
    /\ Step(c, [Recording(c, sendPc, method) EXCEPT
                  !.prev = IF CasOk(internalStatus, HalfOpening)
                           THEN "halfOpenFailure" ELSE "none"])
    /\ UNCHANGED <<sVars, mVars, now, chans, makeSummaryCh, getSummaryCh, counters, lastExecuteTime,
                   resetsDone, closeMark, cmdVars>>

\* second statement: b.metric.Failure() / b.metric.Timeout()
FailSend(c, sendPc, k) ==
    /\ cs[c].pc = sendPc
    /\ Room(k)
    /\ Send(k)
    /\ probes' = 0
    /\ Step(c, Recorded(c, "x_recorded", k))
    /\ UNCHANGED <<sVars, mVars, now, internalStatus, makeSummaryCh, getSummaryCh, counters,
                   lastExecuteTime, opsLeft, resetsDone, closeMark, openedAt, cmdVars>>

FailureCall(c) == FailCas(c, "rec_failure", "fail_send", "Failure")
FailureSend(c) == FailSend(c, "fail_send", "failure")
TimeoutCall(c) == FailCas(c, "rec_timeout", "tout_send", "Timeout")
TimeoutSend(c) == FailSend(c, "tout_send", "timeout")

\* CutBreaker.FallbackSuccess: b.metric.FallbackSuccess()
FallbackSuccessCall(c) ==
    /\ cs[c].pc = "rec_fallback_success"
    /\ Room("fallbackSuccess")
    /\ Send("fallbackSuccess")
    /\ Step(c, [Recorded(c, "x_fallback_recorded", "fallbackSuccess") EXCEPT
                  !.calls = Logged(c, @, "FallbackSuccess")])
    /\ UNCHANGED <<sVars, mVars, now, internalStatus, makeSummaryCh, getSummaryCh, counters,
                   lastExecuteTime, opsLeft, resetsDone, closeMark, openedAt, probes,
                   cmdVars>>

\* CutBreaker.FallbackFailure: b.metric.FallbackSuccess()
FallbackFailureCall(c) ==
    /\ cs[c].pc = "rec_fallback_failure"
    /\ Room("fallbackSuccess")
    /\ Send("fallbackSuccess")
    /\ Step(c, [Recorded(c, "x_fallback_recorded", "fallbackSuccess") EXCEPT
                  !.calls = Logged(c, @, "FallbackFailure")])
    /\ UNCHANGED <<sVars, mVars, now, internalStatus, makeSummaryCh, getSummaryCh, counters,
                   lastExecuteTime, opsLeft, resetsDone, closeMark, openedAt, probes,
                   cmdVars>>

\* The clock advances by one second; that ends every caller's undisturbed run.
Tick ==
    /\ now < MaxTime
    /\ now' = now + 1
    /\ cs' = [d \in Callers |-> [cs[d] EXCEPT !.prev = "none"]]
    /\ UNCHANGED <<sVars, mVars, internalStatus, chans, makeSummaryCh, getSummaryCh, counters,
                   lastExecuteTime, opsLeft, resetsDone, closeMark, openedAt, probes,
                   cmdVars>>

\* ----------------------------------------------------------------- Command

brkVars == <<now, internalStatus, makeSummaryCh, getSummaryCh, chans, counters,
             lastExecuteTime, opsLeft, resetsDone, closeMark, openedAt, probes>>

\* Command.ContextExecute(ctx, param), first statement: command.breaker.Allow(),
\* up to the send on makeSummaryCh
ExecCall(c, param, mode) ==
    /\ ~ex[c].active /\ cs[c].pc = "idle" /\ execsLeft > 0
    /\ makeSummaryCh < channelBufferSize
    /\ makeSummaryCh' = makeSummaryCh + 1
    /\ execsLeft' = execsLeft - 1
    /\ ex' = [ex EXCEPT ![c] = [NoExec EXCEPT !.active = TRUE, !.param = param,
                                              !.mode = mode]]
    /\ Step(c, [IdleCaller EXCEPT !.pc = "allow_wait"])
    /\ UNCHANGED <<sVars, mVars, now, internalStatus, chans, getSummaryCh, counters, lastExecuteTime,
                   opsLeft, resetsDone, closeMark, openedAt, probes, hasFallback>>

\* ContextExecute returns (or panics with) out; its locals are gone
Finish(c, out) ==
    /\ ex' = [ex EXCEPT ![c] = [NoExec EXCEPT !.ret = out]]
    /\ Step(c, IdleCaller)

\* mutant: the context of the fallback is derived from the context of run, so
\* the fallback gets what run left of the timeout
executeFallbackInherited(c, e, param, err) ==
    /\ ex' = [ex EXCEPT ![c] = [e EXCEPT !.deadline = IF e.waited = NoTime
                                                      THEN now + timeout
                                                      ELSE now + timeout - e.waited,
                                         !.fallbackStart = now,
                                         !.fallbackCalls = @ + 1,
                                         !.fallbackParam = param,
                                         !.fallbackErr = err]]
    /\ Step(c, [cs[c] EXCEPT !.pc = "fallback_select"])

\* command.executeFallback(param, err) up to the select of the wrapped fallback:
\* a fresh context of command.timeout, the goroutine that calls the fallback
executeFallback(c, e, param, err) ==
    /\ ex' = [ex EXCEPT ![c] = [e EXCEPT !.deadline = now + timeout,
                                         !.fallbackStart = now,
                                         !.fallbackCalls = @ + 1,
                                         !.fallbackParam = param,
                                         !.fallbackErr = err]]
    /\ Step(c, [cs[c] EXCEPT !.pc = "fallback_select"])

\* if !pass, command.fallback == nil: return nil, openErr
ShortCircuit(c) ==
    /\ cs[c].pc = "x_allowed" /\ ~cs[c].pass /\ ~hasFallback
    /\ Finish(c, Ret(Nil, OpenErr(name, cs[c].msg)))
    /\ UNCHANGED <<sVars, mVars, brkVars, hasFallback, execsLeft>>

\* if !pass: return command.executeFallback(param, openErr)
ShortCircuitFallback(c) ==
    /\ cs[c].pc = "x_allowed" /\ ~cs[c].pass /\ hasFallback
    /\ executeFallback(c, ex[c], ex[c].param, OpenErr(name, cs[c].msg))
    /\ UNCHANGED <<sVars, mVars, brkVars, hasFallback, execsLeft>>

\* command.run(ctx, param) up to the select of the wrapped run: the context
\* with the timeout, the goroutine that calls run.  A caller's deadline has
\* callerBudget left at this point.
RunStart(c) ==
    /\ cs[c].pc = "x_allowed" /\ cs[c].pass
    /\ LET callerDeadline == IF ex[c].mode = "deadline" THEN now + callerBudget
                             ELSE NoTime
       IN ex' = [ex EXCEPT ![c] = [@ EXCEPT !.admitted = TRUE,
                                            !.deadline = CtxDeadline(callerDeadline, now),
                                            !.runStart = now,
                                            !.runCalls = @ + 1]]
    /\ Step(c, [cs[c] EXCEPT !.pc = "run_select"])
    /\ UNCHANGED <<sVars, mVars, brkVars, hasFallback, execsLeft>>

\* mutant: the panic case of the select re-raises without breaker.Failure()
AfterSelectPanicUnrecorded(out) ==
    CASE out.kind = "panic" -> "x_recorded"
      [] out.err = NoErr -> "rec_success"
      [] OTHER -> "rec_failure"

\* The case the select of the wrapped run takes on what the goroutine sent:
\* panicCh: breaker.Failure(); resCh: breaker.Failure() when res.err != nil,
\* else breaker.Success()
AfterSelect(out) ==
    IF out.kind = "return" /\ out.err = NoErr THEN "rec_success" ELSE "rec_failure"

\* The goroutine of the wrapped run: run returns or panics while the context
\* is live, the outcome goes to resCh or panicCh and the waiting select takes
\* it.  (Once the context is done the select has been woken by ctx.Done();
\* what the goroutine sends then stays in the buffer of 1.)
RunReturn(c, out) ==
    /\ cs[c].pc = "run_select" /\ now < ex[c].deadline
    /\ ex' = [ex EXCEPT ![c] = [@ EXCEPT !.runOut = out, !.res = out,
                                         !.waited = now - ex[c].runStart,
                                         !.runStart = NoTime, !.deadline = NoTime,
                                         !.how = IF out.kind = "panic"
                                                 THEN "panic" ELSE "res"]]
    /\ Step(c, [cs[c] EXCEPT !.pc = AfterSelect(out)])
    /\ UNCHANGED <<sVars, mVars, brkVars, hasFallback, execsLeft>>

\* mutant: the deadline case records a Failure and returns ErrTimeout
RunTimeoutAsFailure(c) ==
    /\ cs[c].pc = "run_select" /\ now >= ex[c].deadline
    /\ ex' = [ex EXCEPT ![c] = [@ EXCEPT !.waited = now - ex[c].runStart,
                                         !.runStart = NoTime, !.deadline = NoTime,
                                         !.how = "deadline",
                                         !.res = Ret(Nil, Errorf(name, ErrTimeout))]]
    /\ Step(c, [cs[c] EXCEPT !.pc = "rec_failure"])
    /\ UNCHANGED <<sVars, mVars, brkVars, hasFallback, execsLeft>>

\* case <-ctx.Done(), errors.Is(ctx.Err(), context.DeadlineExceeded)
RunTimeout(c) ==
    /\ cs[c].pc = "run_select" /\ now >= ex[c].deadline
    /\ ex' = [ex EXCEPT ![c] = [@ EXCEPT !.waited = now - ex[c].runStart,
                                         !.runStart = NoTime, !.deadline = NoTime,
                                         !.how = "deadline",
                                         !.res = Ret(Nil, Errorf(name, ErrTimeout))]]
    /\ Step(c, [cs[c] EXCEPT !.pc = "rec_timeout"])
    /\ UNCHANGED <<sVars, mVars, brkVars, hasFallback, execsLeft>>

\* case <-ctx.Done() after the owner of the context has cancelled it
RunCancel(c) ==
    /\ cs[c].pc = "run_select" /\ ex[c].mode = "cancel" /\ now < ex[c].deadline
    /\ ex' = [ex EXCEPT ![c] = [@ EXCEPT !.waited = now - ex[c].runStart,
                                         !.runStart = NoTime, !.deadline = NoTime,
                                         !.how = "cancel",
                                         !.res = Ret(Nil, Errorf(name, Canceled))]]
    /\ Step(c, [cs[c] EXCEPT !.pc = "rec_failure"])
    /\ UNCHANGED <<sVars, mVars, brkVars, hasFallback, execsLeft>>

\* the wrapped run returns res.res, res.err or panics; ContextExecute returns
\* result, nil or nil, err
RunDone(c) ==
    /\ cs[c].pc = "x_recorded"
    /\ LET res == ex[c].res
       IN /\ res.kind = "panic" \/ res.err = NoErr \/ ~hasFallback
          /\ Finish(c, IF res.kind = "panic" \/ res.err = NoErr THEN res
                       ELSE Ret(Nil, res.err))
    /\ UNCHANGED <<sVars, mVars, brkVars, hasFallback, execsLeft>>

\* err != nil: return command.executeFallback(result, err)
RunFallback(c) ==
    /\ cs[c].pc = "x_recorded"
    /\ ex[c].res.kind = "return" /\ ex[c].res.err # NoErr /\ hasFallback
    /\ executeFallback(c, ex[c], ex[c].res.val, ex[c].res.err)
    /\ UNCHANGED <<sVars, mVars, brkVars, hasFallback, execsLeft>>

\* The goroutine of the wrapped fallback, as RunReturn.
FallbackReturn(c, out) ==
    /\ cs[c].pc = "fallback_select" /\ now < ex[c].deadline
    /\ ex' = [ex EXCEPT ![c] = [@ EXCEPT !.fallbackOut = out, !.res = out,
                                         !.deadline = NoTime,
                                         !.fallbackStart = NoTime]]
    /\ Step(c, [cs[c] EXCEPT !.pc = IF out.kind = "return" /\ out.err = NoErr
                                    THEN "rec_fallback_success"
                                    ELSE "rec_fallback_failure"])
    /\ UNCHANGED <<sVars, mVars, brkVars, hasFallback, execsLeft>>

\* case <-ctx.Done() of the wrapped fallback
FallbackTimeout(c) ==
    /\ cs[c].pc = "fallback_select" /\ now >= ex[c].deadline
    /\ ex' = [ex EXCEPT ![c] = [@ EXCEPT !.res = Ret(Nil, Errorf(name, ErrTimeout)),
                                         !.deadline = NoTime,
                                         !.fallbackStart = NoTime]]
    /\ Step(c, [cs[c] EXCEPT !.pc = "rec_fallback_failure"])
    /\ UNCHANGED <<sVars, mVars, brkVars, hasFallback, execsLeft>>

\* the wrapped fallback returns res.res, res.err or panics, and so does
\* ContextExecute
FallbackDone(c) ==
    /\ cs[c].pc = "x_fallback_recorded"
    /\ Finish(c, ex[c].res)
    /\ UNCHANGED <<sVars, mVars, brkVars, hasFallback, execsLeft>>

\* ------------------------------------------------------ callers of the Metric
\* A producer calls the methods of the Metric directly, one call at a time.

\* a caller of the Metric that is in none of its methods; before is history:
\* the summaries that were waiting in getSummaryCh when its call of Summary began
\* and that no caller has received since
IdleProducer == [pc |-> "idle", kind |-> "none", before |-> 0]

brkState == <<internalStatus, cs, resetsDone, closeMark, openedAt, probes, cmdVars,
              sVars>>

\* mutant: context.Background(), which is never done
MetricCtxBackground(calls) == FALSE

\* <-m.ctx.Done() is ready: NewCommand hands the context whose cancel function
\* it keeps to the Metric of its breaker, and Close calls that function
MetricCtxDone(calls) == calls > 0

\* a producer enters Success, Timeout, Failure, FallbackSuccess, FallbackFailure
\* or Reset
IngestCall(c, k) ==
    /\ producers[c].pc = "idle" /\ opsLeft > 0
    /\ opsLeft' = opsLeft - 1
    /\ producers' = [producers EXCEPT ![c] = [pc |-> "send", kind |-> k, before |-> 0]]
    /\ UNCHANGED <<now, chans, makeSummaryCh, getSummaryCh, counters, lastExecuteTime,
                   closeCalls, running, pending, applied, brkState>>

\* m.<kind>Ch <- time.Now(): the send waits for room in the channel
IngestSend(c) ==
    /\ producers[c].pc = "send"
    /\ Room(producers[c].kind)
    /\ Send(producers[c].kind)
    /\ pending' = Append(pending, [who |-> c, kind |-> producers[c].kind])
    /\ producers' = [producers EXCEPT ![c] = IdleProducer]
    /\ UNCHANGED <<now, makeSummaryCh, getSummaryCh, counters, lastExecuteTime,
                   opsLeft, closeCalls, running, applied, brkState>>

\* Metric.Summary, first half: m.makeSummaryCh <- struct{}{}
SummaryCall(c) ==
    /\ producers[c].pc = "idle" /\ opsLeft > 0
    /\ makeSummaryCh < channelBufferSize
    /\ makeSummaryCh' = makeSummaryCh + 1
    /\ opsLeft' = opsLeft - 1
    /\ pending' = Append(pending, [who |-> c, kind |-> "makeSummary"])
    /\ producers' = [producers EXCEPT ![c] = [pc |-> "summary", kind |-> "makeSummary",
                                              before |-> Len(getSummaryCh)]]
    /\ UNCHANGED <<now, chans, getSummaryCh, counters, lastExecuteTime,
                   closeCalls, running, applied, brkState>>

\* Metric.Summary, second half: return <-m.getSummaryCh
SummaryRecv(c) ==
    /\ producers[c].pc = "summary"
    /\ getSummaryCh # <<>>
    /\ getSummaryCh' = Tail(getSummaryCh)
    /\ producers' = [d \in DOMAIN producers |->
                         IF d = c THEN IdleProducer
                         ELSE [producers[d] EXCEPT !.before = IF @ > 0 THEN @ - 1 ELSE 0]]
    /\ UNCHANGED <<now, chans, makeSummaryCh, counters, lastExecuteTime, opsLeft,
                   closeCalls, running, pending, applied, brkState>>

\* Command.Close: command.cancel()
Close ==
    /\ closeCalls < MaxClose
    /\ closeCalls' = closeCalls + 1
    /\ UNCHANGED <<now, chans, makeSummaryCh, getSummaryCh, counters, lastExecuteTime,
                   opsLeft, running, pending, producers, applied, brkState>>

\* Metric.run, case <-m.ctx.Done(): return
RunExit ==
    /\ running
    /\ MetricCtxDone(closeCalls)
    /\ running' = FALSE
    /\ UNCHANGED <<now, chans, makeSummaryCh, getSummaryCh, counters, lastExecuteTime,
                   opsLeft, closeCalls, pending, producers, applied, brkState>>

\* a second passes for the producers of the Metric
Elapse ==
    /\ now < MaxElapse
    /\ now' = now + 1
    /\ UNCHANGED <<chans, makeSummaryCh, getSummaryCh, counters, lastExecuteTime,
                   opsLeft, closeCalls, running, pending, producers, applied, brkState>>

\* ------------------------------------------ constructors, allow(summary)
\* The breakers the constructors return and allow as a function of the summary
\* it is given. Numbers of type float64 are exact fractions num / den, den > 0.

Frac(n, d) == [num |-> n, den |-> d]

\* a time.Duration: whole seconds and the nanoseconds beyond them
Dur(sec, nsec) == [sec |-> sec, nsec |-> nsec]
Second == Dur(1, 0)
Minute == Dur(60, 0)
DurLess(a, b) == a.sec < b.sec \/ (a.sec = b.sec /\ a.nsec < b.nsec)

\* WithMetricCounterSize panics:
\* timeWindow < time.Second || timeWindow > time.Minute
CounterSizePanics(window) == DurLess(window, Second) \/ DurLess(Minute, window)

\* NewMetric: make([]*UnitCounter, m.timeWindow/time.Second), the length
CountersLen(window) == window.sec

\* the Metric of a breaker: the option that hands it b.timeWindow, whether
\* building it panicked and the length of its ring. WithMetricTimeWindow is not
\* among the sources; it is taken to assign the field.
MetricOf(option, window) ==
    LET panicked == option = "WithMetricCounterSize" /\ CounterSizePanics(window)
    IN [option |-> option, timeWindow |-> window, panicked |-> panicked,
        ring |-> IF panicked THEN 0 ELSE CountersLen(window)]

NoBreaker ==
    [kind |-> "none", minRequestThreshold |-> 0, errorThresholdPercentage |-> 0,
     k |-> Frac(0, 1), metricCtx |-> FALSE, defaults |-> FALSE,
     metric |-> MetricOf("none", Dur(0, 0))]

NoDecision ==
    [kind |-> "none", Total |-> 0, Success |-> 0, r |-> Frac(0, 1),
     rejectProb |-> Frac(0, 1), pass |-> FALSE]

\* NewCutBreaker: minRequestThreshold: 20
cutMinRequestThreshold == 20

\* NewCutBreaker; options holds the arguments of the WithCutBreakerMinRequestThreshold
\* options in the order they are given, each of which assigns the field. The
\* Metric is given the context of the breaker (WithMetricContext(b.ctx)) and
\* b.timeWindow, which starts as timeWindow: 5, five nanoseconds.
NewCutBreaker(options) ==
    [kind |-> "cut",
     minRequestThreshold |->
         IF options = <<>> THEN cutMinRequestThreshold ELSE options[Len(options)],
     errorThresholdPercentage |-> errorThresholdPercentage,
     k |-> Frac(0, 1),
     metricCtx |-> TRUE,
     defaults |-> options = <<>>,
     metric |-> MetricOf("WithMetricTimeWindow", Dur(0, 5))]

\* NewCommand, command.breaker == nil:
\* breaker.NewCutBreaker(name, breaker.WithCutBreakerTimeWindow(5*time.Second),
\* breaker.WithCutBreakerMinRequestThreshold(10), ...)
NewCommandBreaker ==
    [NewCutBreaker(<<10>>) EXCEPT !.metric = MetricOf("WithMetricTimeWindow", Dur(5, 0))]

\* NewSreBreaker: k: 1.5
sreK == Frac(3, 2)

\* the arguments of WithSreBreakerK the callers try
SreKs == {Frac(0 - 1, 1), Frac(0, 1), Frac(2, 1)}

\* NewSreBreaker; options holds the arguments of the WithSreBreakerK options in
\* the order they are given, each of which assigns b.k as it is. The Metric is
\* built with WithMetricTimeWindow and WithMetricMetricInterval only, so that its
\* context stays context.Background().
NewSreBreaker(options) ==
    [kind |-> "sre",
     minRequestThreshold |-> 0,
     errorThresholdPercentage |-> 0,
     k |-> IF options = <<>> THEN sreK ELSE options[Len(options)],
     metricCtx |-> FALSE,
     defaults |-> options = <<>>,
     metric |-> MetricOf("WithMetricTimeWindow", Dur(120, 0))]

\* the arguments of WithSreBreakerTimeWindow the callers try
SreWindows == {Dur(2, 0), Dur(120, 0)}

\* NewSreBreaker of breaker/srebreaker.go: timeWindow: 5, a time.Duration of 5
\* nanoseconds, unless a WithSreBreakerTimeWindow option assigns the field; the
\* Metric is built with internal.WithMetricCounterSize(b.timeWindow)
NewSreBreakerCounterSize(options) ==
    [kind |-> "sre",
     minRequestThreshold |-> 0,
     errorThresholdPercentage |-> 0,
     k |-> sreK,
     metricCtx |-> FALSE,
     defaults |-> options = <<>>,
     metric |-> MetricOf("WithMetricCounterSize",
                         IF options = <<>> THEN Dur(0, 5) ELSE options[Len(options)])]

\* the fields of a MetricSummary the breakers read
SummaryOf(success, failure) ==
    [Success |-> success, Failure |-> failure, Total |-> success + failure,
     ErrorPercentage |-> ErrorPercentageOf(failure, success + failure)]

\* CutBreaker.allow, case Closed, with the fields of breaker b
AdmitsWith(b, summary) ==
    \/ summary.Total < b.minRequestThreshold
    \/ FracLess(summary.ErrorPercentage, b.errorThresholdPercentage)

\* SreBreaker.getRejectionProbability:
\* math.Max(0, (float64(Total) - b.k*float64(Success)) / float64(Total+1))
getRejectionProbability(b, summary) ==
    LET n == summary.Total * b.k.den - b.k.num * summary.Success
        d == b.k.den * (summary.Total + 1)
    IN IF n < 0 THEN Frac(0, 1) ELSE Frac(n, d)

\* a > b for two fractions
FracGreater(a, b) == a.num * b.den > b.num * a.den

\* rand.Float64() returns a number of [0, 1): the multiples of 1 / RGrain in it
RandFloats == {Frac(n, RGrain) : n \in 0..(RGrain - 1)}

\* CutBreaker.allow(summary) of a Closed breaker: the other statuses are the
\* subject of Spec
CutAllow(success, failure) ==
    /\ built.kind = "cut"
    /\ ~built.metric.panicked
    /\ internalStatus = Closed
    /\ LET summary == SummaryOf(success, failure)
           pass == AdmitsWith(built, summary)
       IN /\ decision' = [kind |-> "cut", Total |-> summary.Total,
                          Success |-> summary.Success, r |-> Frac(0, 1),
                          rejectProb |-> Frac(0, 1), pass |-> pass]
          /\ internalStatus' =
                 IF pass THEN internalStatus
                 ELSE CasVal(internalStatus, Closed, Openning)
    /\ UNCHANGED <<now, chans, makeSummaryCh, getSummaryCh, counters, lastExecuteTime,
                   cs, opsLeft, resetsDone, closeMark, openedAt, probes, cmdVars,
                   mVars, built, tasks, open>>

\* SreBreaker.allow(summary): currentProb > rejectProb
SreAllow(success, failure, currentProb) ==
    /\ built.kind = "sre"
    /\ ~built.metric.panicked
    /\ LET summary == SummaryOf(success, failure)
           rejectProb == getRejectionProbability(built, summary)
       IN decision' = [kind |-> "sre", Total |-> summary.Total,
                       Success |-> summary.Success, r |-> currentProb,
                       rejectProb |-> rejectProb,
                       pass |-> FracGreater(currentProb, rejectProb)]
    /\ UNCHANGED <<now, internalStatus, chans, makeSummaryCh, getSummaryCh, counters,
                   lastExecuteTime, cs, opsLeft, resetsDone, closeMark, openedAt,
                   probes, cmdVars, mVars, built, tasks, open>>

\* the cancel function of the context given with WithCutBreakerContext or
\* WithSreBreakerContext is called
Cancel ==
    /\ closeCalls < MaxClose
    /\ closeCalls' = closeCalls + 1
    /\ UNCHANGED <<now, chans, makeSummaryCh, getSummaryCh, counters, lastExecuteTime,
                   opsLeft, running, pending, producers, applied, brkState>>

\* Metric.run of the Metric of the breaker, case <-m.ctx.Done(): return; the
\* case is ready when the Metric was given the cancelled context
BuiltRunExit ==
    /\ running
    /\ built.metricCtx
    /\ MetricCtxDone(closeCalls)
    /\ running' = FALSE
    /\ UNCHANGED <<now, chans, makeSummaryCh, getSummaryCh, counters, lastExecuteTime,
                   opsLeft, closeCalls, pending, producers, applied, brkState>>

\* ------------------------------------- the goroutine of a wrapped function
\* One call of the function wrapCommandFuncWithTimeout or
\* wrapCommandFallbackFuncWithTimeout returns: its two channels, the goroutine
\* it starts and its select.  What the select records on the breaker is the
\* subject of SpecCmd.

\* make(chan funcResType, 1), make(chan interface{}, 1)
resultBufferSize == 1

NoTask ==
    [wrapper |-> "none", mode |-> "background", caller |-> "idle", g |-> "none",
     resCh |-> <<>>, panicCh |-> <<>>, out |-> NoOutcome, deadline |-> NoTime,
     how |-> "none"]

Wrappers == {"run", "fallback"}

\* what the wrapped function may do when it finishes
OutcomesOf(wrapper) == IF wrapper = "run" THEN RunOutcomes ELSE FallbackOutcomes

\* the contexts a wrapper runs under: that of ContextExecute for run, the one
\* executeFallback makes from context.Background() for the fallback
ModesOf(wrapper) == IF wrapper = "run" THEN Modes ELSE {"background"}

\* mutant: the channels are made without a buffer, so that a send waits for
\* the select of the caller
ChanRoomUnbuffered(ch, receiving) == receiving

\* resCh <- v or panicCh <- v can proceed: the channel has room in its buffer
ChanRoom(ch, receiving) == Len(ch) < resultBufferSize

\* the wrapper is called: the channels are made, the context gets its timeout
\* and the goroutine starts
TaskStart(i, wrapper, mode) ==
    /\ tasks[i].wrapper = "none"
    /\ mode \in ModesOf(wrapper)
    /\ LET callerDeadline == IF mode = "deadline" THEN now + callerBudget ELSE NoTime
       IN tasks' = [tasks EXCEPT ![i] =
                        [NoTask EXCEPT !.wrapper = wrapper, !.mode = mode,
                                       !.caller = "select", !.g = "running",
                                       !.deadline = CtxDeadline(callerDeadline, now)]]
    /\ UNCHANGED <<now, chans, makeSummaryCh, getSummaryCh, counters, lastExecuteTime,
                   opsLeft, mVars, internalStatus, cs, resetsDone, closeMark, openedAt,
                   probes, cmdVars, built, decision, open>>

\* the goroutine: run(ctx, param) returns, or panics and the deferred function
\* recovers the payload; the send is the next step
TaskReturns(i, out) ==
    /\ tasks[i].g = "running"
    /\ out \in OutcomesOf(tasks[i].wrapper)
    /\ tasks' = [tasks EXCEPT ![i] = [@ EXCEPT !.out = out,
                                               !.g = IF out.kind = "panic"
                                                     THEN "send_panic" ELSE "send_res"]]
    /\ UNCHANGED <<now, chans, makeSummaryCh, getSummaryCh, counters, lastExecuteTime,
                   opsLeft, mVars, internalStatus, cs, resetsDone, closeMark, openedAt,
                   probes, cmdVars, built, decision, open>>

\* the goroutine: resCh <- funcResType{res, err} or panicCh <- err, after which
\* the goroutine is over
TaskSend(i) ==
    /\ tasks[i].g \in {"send_res", "send_panic"}
    /\ LET t == tasks[i]
           receiving == t.caller = "select"
       IN IF t.g = "send_res"
          THEN /\ ChanRoom(t.resCh, receiving)
               /\ tasks' = [tasks EXCEPT ![i] = [t EXCEPT !.resCh = Append(@, t.out),
                                                          !.g = "done"]]
          ELSE /\ ChanRoom(t.panicCh, receiving)
               /\ tasks' = [tasks EXCEPT ![i] = [t EXCEPT !.panicCh = Append(@, t.out),
                                                          !.g = "done"]]
    /\ UNCHANGED <<now, chans, makeSummaryCh, getSummaryCh, counters, lastExecuteTime,
                   opsLeft, mVars, internalStatus, cs, resetsDone, closeMark, openedAt,
                   probes, cmdVars, built, decision, open>>

\* select, case err := <-panicCh or case res := <-resCh: the wrapper panics
\* or returns
TaskRecv(i) ==
    /\ tasks[i].caller = "select"
    /\ LET t == tasks[i]
       IN \/ /\ t.panicCh # <<>>
             /\ tasks' = [tasks EXCEPT ![i] = [t EXCEPT !.panicCh = Tail(@),
                                                        !.caller = "panicked",
                                                        !.how = "panic"]]
          \/ /\ t.resCh # <<>>
             /\ tasks' = [tasks EXCEPT ![i] = [t EXCEPT !.resCh = Tail(@),
                                                        !.caller = "returned",
                                                        !.how = "res"]]
    /\ UNCHANGED <<now, chans, makeSummaryCh, getSummaryCh, counters, lastExecuteTime,
                   opsLeft, mVars, internalStatus, cs, resetsDone, closeMark, openedAt,
                   probes, cmdVars, built, decision, open>>

\* select, case <-ctx.Done(): the deadline has passed or the owner of the
\* context has cancelled it; the wrapper returns
TaskCtxDone(i) ==
    /\ tasks[i].caller = "select"
    /\ \/ /\ now >= tasks[i].deadline
          /\ tasks' = [tasks EXCEPT ![i] = [@ EXCEPT !.caller = "returned",
                                                     !.how = "deadline"]]
       \/ /\ now < tasks[i].deadline /\ tasks[i].mode = "cancel"
          /\ tasks' = [tasks EXCEPT ![i] = [@ EXCEPT !.caller = "returned",
                                                     !.how = "cancel"]]
    /\ UNCHANGED <<now, chans, makeSummaryCh, getSummaryCh, counters, lastExecuteTime,
                   opsLeft, mVars, internalStatus, cs, resetsDone, closeMark, openedAt,
                   probes, cmdVars, built, decision, open>>

\* ------------------------------------------------- an Open breaker over time
\* A Command with a fallback on a CutBreaker that has opened, followed for as
\* long as its callers go on.  Times are kept as ages, now - t, and an age
\* stops growing at sleepWindow: allow compares the age of LastExecuteTime
\* with sleepWindow and with nothing else.

Age(a) == Min(a + 1, sleepWindow)

\* everything but the Open breaker that is followed
restOpen ==
    <<now, chans, makeSummaryCh, getSummaryCh, counters, lastExecuteTime, opsLeft,
      mVars, internalStatus, cs, resetsDone, closeMark, openedAt, probes, cmdVars,
      built, decision, tasks>>

IdleOpenCaller == [pc |-> "idle", held |-> 0]

\* the breaker has just opened on the Failure that was applied last
NewOpen ==
    [status |-> Openning, sinceOpen |-> 0, sinceExec |-> 0, requests |-> 0,
     replies |-> <<>>, events |-> <<>>, outcomes |-> <<>>,
     cl |-> [c \in Callers |-> IdleOpenCaller]]

\* Metric.doFallbackSuccess, doFallbackFailure: m.lastExecuteTime = now
doFallbackTime(sinceExec, eventAge) == eventAge

\* ContextExecute: command.breaker.Allow(), m.makeSummaryCh <- struct{}{}
OpenCall(c) ==
    /\ open.status # Closed
    /\ open.cl[c].pc = "idle"
    /\ open.requests < channelBufferSize
    /\ open' = [open EXCEPT !.requests = @ + 1, !.cl[c].pc = "allow_wait"]
    /\ UNCHANGED restOpen

\* Metric.run, case <-m.makeSummaryCh: the summary carries LastExecuteTime
OpenMakeSummary ==
    /\ open.requests > 0
    /\ Len(open.replies) < channelBufferSize
    /\ open' = [open EXCEPT !.requests = @ - 1,
                            !.replies = Append(@, open.sinceExec)]
    /\ UNCHANGED restOpen

\* Metric.run, case t := <-m.fallbackSuccessCh: m.doFallbackSuccess(t)
OpenEvent ==
    /\ open.events # <<>>
    /\ open' = [open EXCEPT !.events = Tail(@),
                            !.sinceExec = doFallbackTime(@, Head(open.events))]
    /\ UNCHANGED restOpen

\* Metric.Summary, second half: return <-m.getSummaryCh
OpenRecv(c) ==
    /\ open.cl[c].pc = "allow_wait"
    /\ open.replies # <<>>
    /\ open' = [open EXCEPT !.replies = Tail(@),
                            !.cl[c] = [pc |-> "allow_switch", held |-> Head(open.replies)]]
    /\ UNCHANGED restOpen

\* CutBreaker.allow: case HalfOpening: return false; case Openning:
\* time.Since(summary.LastExecuteTime) < b.sleepWindow: return false; the
\* rejected call goes on to executeFallback
OpenSwitch(c) ==
    /\ open.cl[c].pc = "allow_switch"
    /\ open.status # Closed
    /\ open' = [open EXCEPT !.cl[c].pc =
                    IF open.status = Openning /\ ~(open.cl[c].held < sleepWindow)
                    THEN "allow_cas_half" ELSE "fallback"]
    /\ UNCHANGED restOpen

\* return atomic.CompareAndSwapInt32(&b.internalStatus, Openning, HalfOpening):
\* the caller that wins runs as the probe
OpenCasHalf(c) ==
    /\ open.cl[c].pc = "allow_cas_half"
    /\ open' = [open EXCEPT !.status = CasVal(@, Openning, HalfOpening),
                            !.cl[c].pc = IF CasOk(open.status, Openning)
                                         THEN "probe" ELSE "fallback"]
    /\ UNCHANGED restOpen

\* the wrapped fallback is over: breaker.FallbackSuccess() or FallbackFailure(),
\* both m.fallbackSuccessCh <- time.Now(), and ContextExecute returns
OpenFallbackDone(c) ==
    /\ open.cl[c].pc = "fallback"
    /\ Len(open.events) < channelBufferSize
    /\ open' = [open EXCEPT !.events = Append(@, 0), !.cl[c] = IdleOpenCaller]
    /\ UNCHANGED restOpen

\* the probe is over: Failure or Timeout swaps HalfOpening -> Openning,
\* Success swaps HalfOpening -> Closed, and the event goes to the Metric
OpenProbeDone(c, ok) ==
    /\ open.cl[c].pc = "probe"
    /\ Len(open.outcomes) < channelBufferSize
    /\ open' = [open EXCEPT
                  !.status = IF ok THEN CasVal(@, HalfOpening, Closed)
                             ELSE CasVal(@, HalfOpening, Openning),
                  !.sinceOpen = IF ~ok /\ CasOk(open.status, HalfOpening) THEN 0 ELSE @,
                  !.outcomes = Append(@, 0),
                  !.cl[c] = IdleOpenCaller]
    /\ UNCHANGED restOpen

\* Metric.run, case t := <-m.successCh, m.failureCh, m.timeoutCh:
\* m.lastExecuteTime = t
OpenOutcomeEvent ==
    /\ open.outcomes # <<>>
    /\ open' = [open EXCEPT !.outcomes = Tail(@), !.sinceExec = Head(open.outcomes)]
    /\ UNCHANGED restOpen

\* a second passes: every age grows
OpenTick ==
    /\ open' = [open EXCEPT
                  !.sinceOpen = Age(@),
                  !.sinceExec = Age(@),
                  !.replies = [i \in 1..Len(open.replies) |-> Age(open.replies[i])],
                  !.events = [i \in 1..Len(open.events) |-> Age(open.events[i])],
                  !.outcomes = [i \in 1..Len(open.outcomes) |-> Age(open.outcomes[i])],
                  !.cl = [c \in Callers |-> [open.cl[c] EXCEPT !.held = Age(@)]]]
    /\ UNCHANGED restOpen

\* ---------------------------------------------------------- specifications

\* NewCutBreaker / NewMetric
InitBreaker ==
    /\ now = 0
    /\ internalStatus = Closed
    /\ chans = [k \in Kinds |-> <<>>]
    /\ makeSummaryCh = 0
    /\ getSummaryCh = <<>>
    /\ counters = NewCounters
    /\ lastExecuteTime = ZeroTime
    /\ cs = [c \in Callers |-> IdleCaller]
    /\ resetsDone = 0
    /\ closeMark = 0
    /\ openedAt = NoTime
    /\ probes = 0
    /\ ex = [c \in Callers |-> NoExec]
    /\ closeCalls = 0
    /\ running = TRUE
    /\ pending = <<>>
    /\ producers = [c \in Callers |-> IdleProducer]
    /\ applied = NoneApplied
    /\ built = NoBreaker
    /\ decision = NoDecision
    /\ tasks = [i \in TaskIds |-> NoTask]
    /\ open = NewOpen

\* callers of the breaker
Init ==
    /\ InitBreaker
    /\ opsLeft = MaxOps
    /\ execsLeft = 0
    /\ hasFallback = FALSE

\* NewCommand, with or without WithCommandFallback; callers of the Command
InitCmd ==
    /\ InitBreaker
    /\ opsLeft = 0
    /\ execsLeft = MaxExec
    /\ hasFallback \in BOOLEAN

\* Metric.run: one iteration of the select loop
Aggregator ==
    \/ \E k \in Kinds \ {"reset"} : RunEvent(k)
    \/ RunReset
    \/ RunMakeSummary

Next ==
    \/ Tick
    \/ Aggregator
    \/ \E c \in Callers :
         \/ AllowCall(c) \/ AllowRecv(c) \/ AllowSwitch(c)
         \/ AllowCasOpen(c) \/ AllowCasHalf(c)
         \/ SuccessCall(c) \/ SuccessReset(c) \/ SuccessCas(c) \/ SuccessSend(c)
         \/ FailureCall(c) \/ FailureSend(c)
         \/ TimeoutCall(c) \/ TimeoutSend(c)

Spec == Init /\ [][Next]_vars

\* the callers that execute the Command
Clients == {"c1"}

NextCmd ==
    \/ Tick
    \/ Aggregator
    \/ \E c \in Clients :
         \/ \E p \in Params, m \in Modes : ExecCall(c, p, m)
         \/ AllowRecv(c) \/ AllowSwitch(c) \/ AllowCasOpen(c) \/ AllowCasHalf(c)
         \/ ShortCircuit(c) \/ ShortCircuitFallback(c) \/ RunStart(c)
         \/ \E out \in RunOutcomes : RunReturn(c, out)
         \/ RunTimeout(c) \/ RunCancel(c)
         \/ SuccessCall(c) \/ SuccessReset(c) \/ SuccessCas(c) \/ SuccessSend(c)
         \/ FailureCall(c) \/ FailureSend(c)
         \/ TimeoutCall(c) \/ TimeoutSend(c)
         \/ RunDone(c) \/ RunFallback(c)
         \/ \E out \in FallbackOutcomes : FallbackReturn(c, out)
         \/ FallbackTimeout(c)
         \/ FallbackSuccessCall(c) \/ FallbackFailureCall(c)
         \/ FallbackDone(c)

SpecCmd == InitCmd /\ [][NextCmd]_vars

\* what a producer has sent that the aggregator has not taken yet
Backlog == channelBufferSize - 1

\* NewCommand on its default breaker, then producers on the Metric of that
\* breaker: right after NewMetric, or after Backlog calls of Success by c1
\* that returned before the aggregator took any of them
InitMetric ==
    /\ now = 0
    /\ internalStatus = Closed
    /\ \E n \in {0, Backlog} :
          /\ chans = [k \in Kinds |-> IF k = "success" THEN [i \in 1..n |-> 0] ELSE <<>>]
          /\ pending = [i \in 1..n |-> [who |-> "c1", kind |-> "success"]]
    /\ makeSummaryCh = 0
    /\ getSummaryCh = <<>>
    /\ counters = NewCounters
    /\ lastExecuteTime = ZeroTime
    /\ cs = [c \in Callers |-> IdleCaller]
    /\ resetsDone = 0
    /\ closeMark = 0
    /\ openedAt = NoTime
    /\ probes = 0
    /\ ex = [c \in Callers |-> NoExec]
    /\ opsLeft = MaxCalls
    /\ execsLeft = 0
    /\ hasFallback = FALSE
    /\ closeCalls = 0
    /\ running = TRUE
    /\ producers = [c \in Callers |-> IdleProducer]
    /\ applied = NoneApplied
    /\ built = NoBreaker
    /\ decision = NoDecision
    /\ tasks = [i \in TaskIds |-> NoTask]
    /\ open = NewOpen

\* the methods the producers call, besides Summary
IngestKinds == {"success", "failure", "reset"}

\* the callers that call the Metric
Producers == {"c1"}

NextMetric ==
    \/ Aggregator
    \/ RunExit
    \/ Close
    \/ \E c \in Producers :
         \/ \E k \in IngestKinds : IngestCall(c, k)
         \/ IngestSend(c)
         \/ SummaryCall(c) \/ SummaryRecv(c)

\* The select of Metric.run picks among its ready cases at random, so a case
\* that stays ready is taken; senders and receivers parked on a channel are
\* served in the order they arrived.
SpecMetric ==
    /\ InitMetric /\ [][NextMetric]_vars
    /\ WF_vars(RunExit)
    /\ \A k \in Kinds \ {"reset"} : WF_vars(RunEvent(k))
    /\ WF_vars(RunReset)
    /\ WF_vars(RunMakeSummary)
    /\ \A c \in Producers : SF_vars(IngestSend(c)) /\ SF_vars(SummaryRecv(c))

\* the methods the producers call while time passes, besides Summary
WindowKinds == Kinds

\* NewMetric, then a producer on the Metric as the seconds pass
InitWindow ==
    /\ InitBreaker
    /\ opsLeft = MaxCalls
    /\ execsLeft = 0
    /\ hasFallback = FALSE

NextWindow ==
    \/ Elapse
    \/ Aggregator
    \/ \E c \in Producers :
         \/ \E k \in WindowKinds : IngestCall(c, k)
         \/ IngestSend(c)
         \/ SummaryCall(c) \/ SummaryRecv(c)

SpecWindow == InitWindow /\ [][NextWindow]_vars

\* NewCommand without a Breaker option, or NewSreBreaker with at most one
\* WithSreBreakerK; then allow on summaries, and the cancellation of the context
\* the breaker was given
InitBuild ==
    /\ now = 0
    /\ internalStatus = Closed
    /\ chans = [k \in Kinds |-> <<>>]
    /\ makeSummaryCh = 0
    /\ getSummaryCh = <<>>
    /\ counters = NewCounters
    /\ lastExecuteTime = ZeroTime
    /\ cs = [c \in Callers |-> IdleCaller]
    /\ resetsDone = 0
    /\ closeMark = 0
    /\ openedAt = NoTime
    /\ probes = 0
    /\ ex = [c \in Callers |-> NoExec]
    /\ opsLeft = 0
    /\ execsLeft = 0
    /\ hasFallback = FALSE
    /\ closeCalls = 0
    /\ running = TRUE
    /\ pending = <<>>
    /\ producers = [c \in Callers |-> IdleProducer]
    /\ applied = NoneApplied
    /\ built \in {NewCommandBreaker, NewSreBreaker(<<>>), NewSreBreakerCounterSize(<<>>)}
                     \cup {NewSreBreakerCounterSize(<<w>>) : w \in SreWindows}
                     \cup {NewSreBreaker(<<k>>) : k \in SreKs}
    /\ decision = NoDecision
    /\ tasks = [i \in TaskIds |-> NoTask]
    /\ open = NewOpen

NextBuild ==
    \/ \E success \in 0..MaxTotal : \E failure \in 0..(MaxTotal - success) :
           CutAllow(success, failure)
    \/ \E success \in 0..MaxSreTotal : \E failure \in 0..(MaxSreTotal - success) :
           \E currentProb \in RandFloats : SreAllow(success, failure, currentProb)
    \/ Cancel
    \/ BuiltRunExit

SpecBuild == InitBuild /\ [][NextBuild]_vars /\ WF_vars(BuiltRunExit)

\* calls of the wrapped run and of the wrapped fallback as the seconds pass
InitTask ==
    /\ InitBreaker
    /\ opsLeft = 0
    /\ execsLeft = 0
    /\ hasFallback = TRUE

NextTask ==
    \/ Elapse
    \/ \E i \in TaskIds :
         \/ \E wrapper \in Wrappers : \E mode \in Modes : TaskStart(i, wrapper, mode)
         \/ \E out \in RunOutcomes \cup FallbackOutcomes : TaskReturns(i, out)
         \/ TaskSend(i)
         \/ TaskRecv(i)
         \/ TaskCtxDone(i)

\* a goroutine that can take a step takes it; the functions handed to
\* NewCommand need not return
SpecTask ==
    /\ InitTask
    /\ [][NextTask]_vars
    /\ \A i \in TaskIds : WF_vars(TaskSend(i))

\* callers of the breaker that also read its Summary
NextSum ==
    \/ Next
    \/ \E c \in Callers :
         \/ SummaryOpCall(c) \/ SummaryOpRecv(c) \/ SummaryOpSwitch(c)
         \/ SummaryOpCasOpen(c) \/ SummaryOpCasHalf(c)

SpecSum == Init /\ [][NextSum]_vars

\* the callers of the Command keep calling while the breaker is not Closed, the
\* clock, the aggregator and every call go on
InitOpen ==
    /\ now = 0
    /\ internalStatus = Closed
    /\ chans = [k \in Kinds |-> <<>>]
    /\ makeSummaryCh = 0
    /\ getSummaryCh = <<>>
    /\ counters = NewCounters
    /\ lastExecuteTime = ZeroTime
    /\ cs = [c \in Callers |-> IdleCaller]
    /\ resetsDone = 0
    /\ closeMark = 0
    /\ openedAt = NoTime
    /\ probes = 0
    /\ ex = [c \in Callers |-> NoExec]
    /\ opsLeft = 0
    /\ execsLeft = 0
    /\ hasFallback = TRUE
    /\ closeCalls = 0
    /\ running = TRUE
    /\ pending = <<>>
    /\ producers = [c \in Callers |-> IdleProducer]
    /\ applied = NoneApplied
    /\ built = NoBreaker
    /\ decision = NoDecision
    /\ tasks = [i \in TaskIds |-> NoTask]
    /\ open = NewOpen

NextOpen ==
    \/ OpenTick
    \/ OpenMakeSummary
    \/ OpenEvent
    \/ OpenOutcomeEvent
    \/ \E c \in Callers :
         \/ OpenCall(c) \/ OpenRecv(c) \/ OpenSwitch(c) \/ OpenCasHalf(c)
         \/ OpenFallbackDone(c)
         \/ \E ok \in BOOLEAN : OpenProbeDone(c, ok)

SpecOpen ==
    /\ InitOpen
    /\ [][NextOpen]_vars
    /\ WF_vars(OpenTick)
    /\ WF_vars(OpenMakeSummary) /\ WF_vars(OpenEvent) /\ WF_vars(OpenOutcomeEvent)
    /\ \A c \in Callers :
         /\ WF_vars(OpenCall(c)) /\ WF_vars(OpenRecv(c)) /\ WF_vars(OpenSwitch(c))
         /\ WF_vars(OpenCasHalf(c)) /\ WF_vars(OpenFallbackDone(c))
         /\ WF_vars(\E ok \in BOOLEAN : OpenProbeDone(c, ok))

\* several callers inside the methods of one Metric at a time
NextSummary ==
    \/ Aggregator
    \/ \E c \in Callers :
         \/ \E k \in IngestKinds : IngestCall(c, k)
         \/ IngestSend(c)
         \/ SummaryCall(c) \/ SummaryRecv(c)

SpecSummary == InitMetric /\ [][NextSummary]_vars

\* ------------------------------------------------------------- properties

\* c takes the step that leaves position p
Leaves(c, p) == cs[c].pc = p /\ cs'[c].pc # p

\* c's Allow returns in this step
AllowReturns(c) ==
    /\ cs[c].pc \in {"allow_switch", "allow_cas_open", "allow_cas_half"}
    /\ cs'[c].pc = "idle"

RetIs(r, pass, msg) == r.pc = "idle" /\ r.pass = pass /\ r.msg = msg

\* C1: between two steps of Success, Failure or Timeout at most one Allow
\* returns (true, "half-open"): the one whose Open->HalfOpen swap succeeds;
\* an Allow that loses the swap, and every Allow that reads HalfOpen, returns
\* (false, "half-open").
C1_Step ==
    /\ probes' <= 1
    /\ \A c \in Callers :
         /\ (Leaves(c, "allow_switch") /\ internalStatus = HalfOpening)
               => RetIs(cs'[c], FALSE, "half-open")
         /\ Leaves(c, "allow_cas_half")
               => RetIs(cs'[c], internalStatus = Openning, "half-open")
         /\ (AllowReturns(c) /\ cs'[c].pass /\ cs'[c].msg = "half-open")
               => (internalStatus = Openning /\ internalStatus' = HalfOpening)

C1_AtMostOneProbe == [][C1_Step]_vars

\* a probe is admitted while another caller is about to lose the same swap
C1_Witness ==
    \E c, d \in Callers :
        /\ c # d
        /\ RetIs(cs[c], TRUE, "half-open")
        /\ cs[d].pc = "allow_cas_half"
        /\ internalStatus = HalfOpening
        /\ probes = 1

\* C2 as stated: an Allow that reads Closed returns (true, "closed") iff the
\* summary it fetched has total < minRequestThreshold or errorPercentage <
\* errorThresholdPercentage; otherwise the status becomes one of `after` and
\* the call returns (false, "open").
C2_Step(after) ==
    \A c \in Callers :
        /\ (Leaves(c, "allow_switch") /\ internalStatus = Closed)
              => LET s == cs[c].summary
                     low == \/ s.Total < minRequestThreshold
                            \/ FracLess(s.ErrorPercentage, errorThresholdPercentage)
                 IN /\ RetIs(cs'[c], TRUE, "closed") <=> low
                    /\ ~low => cs'[c].pc = "allow_cas_open"
        /\ Leaves(c, "allow_cas_open")
              => (RetIs(cs'[c], FALSE, "open") /\ internalStatus' \in after)

C3_HalfOpenRecovery ==
    \A c \in Callers :
        (cs[c].prev = "afterHalfOpenSuccess" /\ cs[c].pc = "idle")
            => (RetIs(cs[c], TRUE, "closed") /\ cs[c].summary.Total = 0)

\* C4: after a Failure or Timeout in HalfOpen, the same caller's next Allow
\* returns (false, "open").
C4_HalfOpenFailure ==
    \A c \in Callers :
        (cs[c].prev = "afterHalfOpenFailure" /\ cs[c].pc = "idle")
            => RetIs(cs[c], FALSE, "open")

\* C5: an Allow that reads Open while now - summary.lastExecute < sleepWindow
\* returns (false, "open") and leaves the status as it is; the Open->HalfOpen
\* swap is attempted only once that time has elapsed.
C5_Step ==
    \A c \in Callers :
        /\ (Leaves(c, "allow_switch") /\ internalStatus = Openning)
              => IF now - cs[c].summary.LastExecuteTime < sleepWindow
                 THEN RetIs(cs'[c], FALSE, "open") /\ internalStatus' = internalStatus
                 ELSE cs'[c].pc = "allow_cas_half"
        /\ (cs[c].pc # "allow_cas_half" /\ cs'[c].pc = "allow_cas_half")
              => /\ internalStatus = Openning
                 /\ now - cs[c].summary.LastExecuteTime >= sleepWindow

C5_OpenSleeps == [][C5_Step]_vars

\* an Allow was rejected by a breaker that opened earlier and has seen an
\* execution since
C5_Witness ==
    \E c \in Callers :
        /\ RetIs(cs[c], FALSE, "open")
        /\ internalStatus = Openning
        /\ openedAt # NoTime /\ openedAt < now
        /\ cs[c].summary.LastExecuteTime = now

\* the summary c decides on is the one the aggregator would compute right
\* now, with every recorded event already applied
Current(c) ==
    /\ \A k \in Kinds : chans[k] = <<>>
    /\ cs[c].summary = makeSummary(counters, now, lastExecuteTime, resetsDone)

\* C6: no Allow, not even one deciding on an up-to-date summary, admits a
\* call before sleepWindow has elapsed since the last transition to Open.
C6_Step ==
    \A c \in Callers :
        (AllowReturns(c) /\ cs'[c].pass /\ openedAt # NoTime /\ Current(c))
            => now - openedAt >= sleepWindow

C6_SleepsAfterOpen == [][C6_Step]_vars

\* the summary holds no count at all
NoCounts(s) ==
    s.Success = 0 /\ s.Failure = 0 /\ s.Timeout = 0
    /\ s.FallbackSuccess = 0 /\ s.FallbackFailure = 0

\* C7: once Success in HalfOpen has closed the breaker, an Allow that reads
\* Closed does not decide on a summary computed before that Success' Reset
\* was processed and still holding counts.
C7_Step ==
    \A c \in Callers :
        (Leaves(c, "allow_switch") /\ internalStatus = Closed /\ closeMark > 0
         /\ cs[c].summary.gen < closeMark)
            => NoCounts(cs[c].summary)

C7_ResetBeforeTransition == [][C7_Step]_vars

\* ---------------------------------------------- properties of the Command

\* c's ContextExecute returns in this step
Finishing(c) == ex[c].active /\ ~ex'[c].active

AllowPcs == {"allow_wait", "allow_switch", "allow_cas_open", "allow_cas_half"}

\* c's execution has been rejected by Allow
Rejected(c) ==
    ex[c].active /\ ~ex[c].admitted /\ ~cs[c].pass /\ cs[c].pc \notin AllowPcs

Sel(log, entries) == SelectSeq(log, LAMBDA e : e \in entries)

\* the breaker methods of an execution that record the outcome of run, and
\* the events they send
OutcomeCalls(c) == Sel(cs[c].calls, {"Success", "Failure", "Timeout"})
OutcomeEvents(c) == Sel(cs[c].sent, {"success", "failure", "timeout"})
FallbackEvents(c) == Sel(cs[c].sent, {"fallbackSuccess", "fallbackFailure"})

\* the fallback returned or panicked before its deadline
FallbackCameBack(c) == ex[c].fallbackOut.kind # "none"

\* C8: when Allow rejects, the execution never invokes run and records no
\* Success, Failure or Timeout; without a fallback it returns the error
\* "<name>: <status>: command: unavailable", which is ErrFallback; with a
\* fallback it invokes the fallback once with that error and returns what
\* the fallback returns.
C8_Step ==
    \A c \in Callers :
        /\ Rejected(c)' =>
              /\ ex'[c].runCalls = 0
              /\ OutcomeCalls(c)' = <<>> /\ OutcomeEvents(c)' = <<>>
              /\ ex'[c].fallbackCalls <= 1
        /\ (Rejected(c) /\ Finishing(c)) =>
              LET err == [text |-> <<name, cs[c].msg, "command: unavailable">>,
                          is |-> {"ErrFallback"}]
              IN /\ cs[c].msg \in {"open", "half-open"}
                 /\ IF hasFallback
                    THEN /\ ex[c].fallbackCalls = 1
                         /\ ex[c].fallbackErr = err
                         /\ FallbackCameBack(c) => ex'[c].ret = ex[c].fallbackOut
                    ELSE /\ ex[c].fallbackCalls = 0
                         /\ ex'[c].ret = Ret(Nil, err)

C8_ShortCircuit == [][C8_Step]_vars

\* a rejected execution without fallback has returned the error of an open
\* breaker
C8_Witness ==
    \E c \in Callers :
        /\ ~ex[c].active /\ ~hasFallback
        /\ ex[c].ret = Ret(Nil, [text |-> <<"test", "open", "command: unavailable">>,
                                 is |-> {"ErrFallback"}])
        /\ internalStatus = Openning

\* min(caller deadline - now, default timeout) as run starts
C9_Bound(c) ==
    IF ex[c].mode = "deadline" THEN Min(callerBudget, timeout) ELSE timeout

\* C9: an execution without fallback whose run has not returned within
\* min(caller deadline - now, default timeout) returns "<name>: command:
\* timeout", which is ErrTimeout, and has called Timeout once and neither
\* Success nor Failure.
C9_Step ==
    \A c \in Callers :
        (Finishing(c) /\ ~hasFallback /\ ex[c].admitted /\ ex[c].waited >= C9_Bound(c))
            => /\ ex'[c].ret = Ret(Nil, [text |-> <<name, "command: timeout">>,
                                         is |-> {"ErrTimeout"}])
               /\ OutcomeCalls(c) = <<"Timeout">>
               /\ OutcomeEvents(c) = <<"timeout">>

C9_Timeout == [][C9_Step]_vars

\* run has outlived the caller's deadline, shorter than the Command's timeout,
\* and the Timeout is recorded
C9_Witness ==
    \E c \in Callers :
        /\ cs[c].pc = "x_recorded" /\ ~hasFallback
        /\ ex[c].mode = "deadline" /\ ex[c].how = "deadline"
        /\ ex[c].waited = callerBudget /\ callerBudget < timeout
        /\ cs[c].calls = <<"Timeout">>

\* C10: when run returns a non-nil error before the deadline, one Failure is
\* recorded; with a fallback, the fallback is invoked once, the execution
\* returns what the fallback returns, and FallbackSuccess is recorded when
\* the fallback returns a nil error, FallbackFailure otherwise; without a
\* fallback the execution returns run's error.
C10_Step ==
    \A c \in Callers :
        (Finishing(c) /\ ex[c].admitted /\ ex[c].how = "res" /\ ex[c].runOut.err # NoErr)
            => /\ OutcomeCalls(c) = <<"Failure">>
               /\ OutcomeEvents(c) = <<"failure">>
               /\ IF hasFallback
                  THEN /\ ex[c].fallbackCalls = 1
                       /\ FallbackCameBack(c) => ex'[c].ret = ex[c].fallbackOut
                       /\ FallbackEvents(c) =
                             IF ex[c].fallbackOut.kind = "return"
                                /\ ex[c].fallbackOut.err = NoErr
                             THEN <<"fallbackSuccess">> ELSE <<"fallbackFailure">>
                  ELSE /\ ex[c].fallbackCalls = 0
                       /\ ex'[c].ret.kind = "return"
                       /\ ex'[c].ret.err = ex[c].runOut.err

C10_RunError == [][C10_Step]_vars

\* C11: when run panics in its goroutine, the execution ends by re-raising
\* the panic with its payload in the caller, whether or not a fallback is
\* configured, and by then it has recorded one Failure and nothing else.
C11_Step ==
    \A c \in Callers :
        (Finishing(c) /\ ex[c].runOut.kind = "panic")
            => /\ ex'[c].ret = [kind |-> "panic", val |-> ex[c].runOut.val, err |-> NoErr]
               /\ ex[c].runOut.val = "panicVal"
               /\ cs[c].calls = <<"Failure">>
               /\ cs[c].sent = <<"failure">>
               /\ ex[c].fallbackCalls = 0

C12_Step ==
    \A c \in Callers :
        (/\ Finishing(c) /\ hasFallback /\ ex[c].admitted /\ ex[c].how = "deadline"
         /\ ex[c].fallbackOut = Ret("fallbackVal", NoErr))
            => /\ ex'[c].ret.kind = "return"
               /\ "ErrTimeout" \in ex'[c].ret.err.is
               /\ OutcomeEvents(c) = <<"timeout">>

C12_TimeoutWithFallback == [][C12_Step]_vars

\* the select of the wrapped fallback takes a case in this step
FallbackResolves(c) ==
    cs[c].pc = "fallback_select" /\ cs'[c].pc # "fallback_select"

\* C13: the fallback has the Command's whole timeout from the moment it
\* starts, whatever run or the caller's deadline have consumed: its select
\* takes the fallback's outcome only before that, gives up only once that
\* has passed, and the execution then returns "<name>: command: timeout",
\* which is ErrTimeout.
C13_Step ==
    \A c \in Callers :
        /\ FallbackResolves(c) =>
              IF ex'[c].fallbackOut.kind = "none"
              THEN /\ now - ex[c].fallbackStart >= timeout
                   /\ ex'[c].res = Ret(Nil, [text |-> <<name, "command: timeout">>,
                                             is |-> {"ErrTimeout"}])
              ELSE now - ex[c].fallbackStart < timeout
        /\ (Finishing(c) /\ ex[c].fallbackCalls > 0 /\ ~FallbackCameBack(c)) =>
              ex'[c].ret = Ret(Nil, [text |-> <<name, "command: timeout">>,
                                     is |-> {"ErrTimeout"}])

C13_FallbackDeadline == [][C13_Step]_vars

\* the fallback of an execution whose caller had a shorter deadline has used
\* up the Command's timeout, and the failure of the fallback is recorded
C13_Witness ==
    \E c \in Callers :
        /\ cs[c].pc = "x_fallback_recorded" /\ ex[c].mode = "deadline"
        /\ ex[c].fallbackCalls = 1 /\ ~FallbackCameBack(c)
        /\ ex[c].res.err.is = {"ErrTimeout"}
        /\ callerBudget < timeout

\* C14: every invocation of the fallback, after a rejection by Allow, after
\* an error of run and after a timeout of run, gets the param that was
\* passed to Execute.
C14_Step ==
    \A c \in Callers :
        (ex[c].active /\ ex'[c].fallbackCalls = ex[c].fallbackCalls + 1)
            => ex'[c].fallbackParam = ex[c].param

C14_FallbackParam == [][C14_Step]_vars

\* C15: the first Close cancels the context of the Metric, after which the
\* aggregator goroutine eventually returns; a later Close changes nothing.
C15_Step ==
    (closeCalls' # closeCalls) =>
        /\ MetricCtxDone(closeCalls')
        /\ closeCalls > 0 =>
              /\ MetricCtxDone(closeCalls)
              /\ UNCHANGED <<running, chans, makeSummaryCh, getSummaryCh, counters,
                             lastExecuteTime, pending, producers>>

C15_CloseTerminates ==
    /\ [][C15_Step]_vars
    /\ (closeCalls > 0) ~> ~running

\* Close has been called twice and the aggregator has returned
C15_Witness == closeCalls > 1 /\ ~running

\* C16: once the aggregator has returned, every call of a method of the
\* Metric that is under way returns.
C16_ReturnsAfterExit ==
    \A c \in Producers :
        (~running /\ producers[c].pc # "idle") ~> (producers[c].pc = "idle")

\* the place in pending of what the aggregator takes when it takes a k
First(k) ==
    CHOOSE i \in 1..Len(pending) :
        pending[i].kind = k /\ \A j \in 1..(i - 1) : pending[j].kind # k

\* the aggregator takes a k in this step while something of one of `kinds`,
\* put in earlier by the same caller, is still waiting
Overtakes(k, kinds) ==
    /\ pending' = Taken(pending, k) /\ pending' # pending
    /\ \E j \in 1..(First(k) - 1) :
          pending[j].who = pending[First(k)].who /\ pending[j].kind \in kinds

EventKinds == Kinds \ {"reset"}

\* C17: the aggregator computes the summary for a Summary call only after it
\* has applied every event whose ingest call the same caller had completed
\* before that Summary call.
C17_Step == ~Overtakes("makeSummary", EventKinds)

C17_SummarySeesOwnEvents == [][C17_Step]_vars

\* C18: when the aggregator processes a reset, every event put in before
\* that Reset call has been applied.
C18_Step == ~Overtakes("reset", EventKinds)

C18_ResetBarrier == [][C18_Step]_vars

\* C19: the aggregator applies the events of one caller in the order the
\* caller emitted them, events of different kinds included.
C19_Step == \A k \in EventKinds : ~Overtakes(k, EventKinds \ {k})

C19_EmissionOrder == [][C19_Step]_vars

\* what the counters of the window hold in `field`
Counted(ring, field) == SumField(ring, now, field, timeWindow - 1)

\* the aggregator takes the oldest event of kind k in this step
Takes(k) == chans[k] # <<>> /\ chans' = [chans EXCEPT ![k] = Tail(@)]

\* C20: while the aggregator runs, an ingest call returns only by putting
\* its event in a channel that has room, so a call on a full channel waits;
\* the aggregator counts each event it takes once and counts nothing else;
\* every queued event is eventually taken and every waiting ingest call
\* eventually returns.
C20_Step ==
    /\ \A c \in Producers :
          (producers[c].pc = "send" /\ producers'[c].pc = "idle") =>
              /\ Len(chans[producers[c].kind]) < channelBufferSize
              /\ chans' = [chans EXCEPT ![producers[c].kind] = Append(@, now)]
    /\ Takes("success") =>
          /\ Counted(counters', "Success") = Counted(counters, "Success") + 1
          /\ Counted(counters', "Failure") = Counted(counters, "Failure")
    /\ Takes("failure") =>
          /\ Counted(counters', "Failure") = Counted(counters, "Failure") + 1
          /\ Counted(counters', "Success") = Counted(counters, "Success")
    /\ (counters' # counters) => \E k \in Kinds : Takes(k)

C20_BlockNotDrop ==
    /\ [][C20_Step]_vars
    /\ \A k \in IngestKinds : (chans[k] # <<>>) ~> (chans[k] = <<>> \/ ~running)
    /\ \A c \in Producers :
          (producers[c].pc = "send") ~> (producers[c].pc = "idle" \/ ~running)

\* a producer waits in its send on a full channel while the aggregator runs
C20_Witness ==
    \E c \in Producers :
        /\ producers[c].pc = "send" /\ running
        /\ Len(chans[producers[c].kind]) = channelBufferSize

\* the summaries that exist: those waiting in getSummaryCh and those their
\* callers hold
Summaries ==
    {getSummaryCh[i] : i \in 1..Len(getSummaryCh)}
        \cup {cs[c].summary : c \in {d \in Callers : cs[d].summary # NoSummary}}

\* C21: in every summary Total is Success + Failure, and ErrorPercentage is
\* 0 when Total is 0 and 100 * Failure / Total otherwise.
C21_DerivedFields ==
    \A s \in Summaries :
        /\ s.Total = s.Success + s.Failure
        /\ IF s.Total = 0
           THEN s.ErrorPercentage.num = 0 /\ s.ErrorPercentage.den > 0
           ELSE /\ s.ErrorPercentage.den > 0
                /\ s.ErrorPercentage.num * s.Total
                      = 100 * s.Failure * s.ErrorPercentage.den

\* a caller holds a summary of successes and failures, and another of nothing
C21_Witness ==
    /\ \E s \in Summaries : s.Success > 0 /\ s.Failure > 0
    /\ \E s \in Summaries : s.Total = 0

\* history: the producers' events of kind k applied since the last reset
\* whose timestamp is at most `age` old
RECURSIVE AppliedSince(_, _, _)
AppliedSince(k, age, t) ==
    IF t < 0 THEN 0
    ELSE (IF now - t <= age THEN applied[k][t] ELSE 0) + AppliedSince(k, age, t - 1)

AppliedInWindow(k) == AppliedSince(k, timeWindow, MaxElapse)

\* the aggregator computes a summary in this step
Summarizes == makeSummaryCh' = makeSummaryCh - 1

\* the summary the aggregator has just computed
Computed == getSummaryCh'[Len(getSummaryCh')]

\* a Timeout event adds one to Timeout and to Failure of its unit, and to
\* nothing else
C22_TimeoutApplied ==
    Takes("timeout") =>
        LET t == Head(chans["timeout"])
            index == CounterIndex(t)
            unit == getCurrentCounter(counters, t)[index]
        IN /\ counters'[index].Timeout = unit.Timeout + 1
           /\ counters'[index].Failure = unit.Failure + 1
           /\ counters'[index].Success = unit.Success
           /\ counters'[index].FallbackSuccess = unit.FallbackSuccess
           /\ counters'[index].FallbackFailure = unit.FallbackFailure
           /\ \A i \in DOMAIN counters : i # index => counters'[i] = counters[i]

\* C22: a Timeout event adds one to both Timeout and Failure of its unit and
\* to no other counter, so every summary counts as failures the Failure and
\* Timeout events of the window, and at least as many failures as timeouts.
C22_Step ==
    /\ C22_TimeoutApplied
    /\ Summarizes =>
          /\ Computed.Timeout <= Computed.Failure
          /\ Computed.Failure = AppliedInWindow("failure") + AppliedInWindow("timeout")

C22_TimeoutIsFailure == [][C22_Step]_vars

\* history: only Success events have been applied, there has been no reset,
\* and every event applied is in the window
OnlySuccessesInWindow ==
    /\ resetsDone = 0
    /\ \A k \in EventKinds \ {"success"} : AppliedSince(k, MaxElapse, MaxElapse) = 0
    /\ AppliedInWindow("success") = AppliedSince("success", MaxElapse, MaxElapse)

\* C23: a summary of a new Metric to which only Success events have been
\* applied, all of them in the window, counts every one of them.
C23_Step ==
    (Summarizes /\ OnlySuccessesInWindow)
        => Computed.Success = AppliedInWindow("success")

C23_WindowComplete == [][C23_Step]_vars

\* history: every event applied is at least timeWindow + 1 seconds old
AllDecayed ==
    \A k \in EventKinds, t \in 0..MaxElapse :
        applied[k][t] > 0 => now - t >= timeWindow + 1

\* C24: a summary computed when every event applied is at least W + 1
\* seconds old reports no success, failure, timeout or total.
C24_Step ==
    (Summarizes /\ AllDecayed)
        => /\ Computed.Success = 0 /\ Computed.Failure = 0
           /\ Computed.Timeout = 0 /\ Computed.Total = 0

C24_WindowDecay == [][C24_Step]_vars

\* without any reset, a summary computed after an event of second 0 was
\* applied counts nothing: it was computed after the event had left the window
C24_Witness ==
    /\ resetsDone = 0 /\ now >= timeWindow + 1
    /\ \E i \in 1..Len(getSummaryCh) :
          getSummaryCh[i].LastExecuteTime = 0 /\ getSummaryCh[i].Total = 0

\* C25: a summary computed after a reset was processed, with no event
\* applied since, reports zero for its five counters, its total and its
\* error percentage.
C25_Step ==
    (Summarizes /\ resetsDone > 0 /\ applied = NoneApplied)
        => /\ Computed.Success = 0 /\ Computed.Failure = 0 /\ Computed.Timeout = 0
           /\ Computed.FallbackSuccess = 0 /\ Computed.FallbackFailure = 0
           /\ Computed.Total = 0 /\ Computed.ErrorPercentage.num = 0

C25_ResetZeroes == [][C25_Step]_vars

\* an event that would still be in the window was applied, then a reset was
\* processed, and a summary computed since then counts nothing
C25_Witness ==
    /\ resetsDone > 0 /\ applied = NoneApplied
    /\ lastExecuteTime >= 0 /\ now - lastExecuteTime <= timeWindow
    /\ \E i \in 1..Len(getSummaryCh) :
          getSummaryCh[i].gen = resetsDone /\ getSummaryCh[i].Total = 0

\* c's call of the breaker's FallbackFailure returns in this step
FallbackFailureReturns(c) ==
    /\ Len(cs'[c].calls) = Len(cs[c].calls) + 1
    /\ cs'[c].calls[Len(cs'[c].calls)] = "FallbackFailure"

\* C26: the breaker's FallbackFailure hands the Metric a fallback failure
\* event, and no fallback success event.
C26_Step ==
    \A c \in Callers :
        FallbackFailureReturns(c) =>
            /\ chans'["fallbackFailure"] = Append(chans["fallbackFailure"], now)
            /\ chans'["fallbackSuccess"] = chans["fallbackSuccess"]

C26_FallbackFailureRecorded == [][C26_Step]_vars

\* C27: a Command constructed without a Breaker option uses a CutBreaker with
\* the documented defaults: its Closed breaker admits every call whose summary
\* counts fewer than 20 requests, the default of NewCutBreaker.
C27_DefaultThreshold ==
    (decision.kind = "cut" /\ decision.Total < cutMinRequestThreshold) => decision.pass

\* C28: SreBreaker.allow admits iff the number drawn is strictly greater than
\* max(0, (Total - k * Success) / (Total + 1)), and that probability is at
\* least 0 and below 1.
C28_RejectProb ==
    decision.kind = "sre" =>
        LET raw == Frac(decision.Total * built.k.den - built.k.num * decision.Success,
                        built.k.den * (decision.Total + 1))
            p == decision.rejectProb
        IN /\ p = (IF raw.num < 0 THEN Frac(0, 1) ELSE raw)
           /\ decision.pass <=> FracGreater(decision.r, p)
           /\ p.num >= 0
           /\ p.num < p.den

\* C29: NewSreBreaker with option K <= 0 returns no usable breaker: no allow is
\* ever answered by an SreBreaker whose k is 0 or less.
C29_InvalidKRejected == decision.kind = "sre" => built.k.num > 0

\* C30: once the context given to NewSreBreaker is cancelled, the aggregator of
\* the SreBreaker's Metric returns, as that of a CutBreaker does.
C30_SreCancelTerminates == (built.kind = "sre" /\ closeCalls > 0) ~> ~running

\* the goroutine of call i is about to send what its function did
Sending(i) == tasks[i].g \in {"send_res", "send_panic"}

\* C31: the goroutine of a wrapped function never waits to send: when the
\* function has returned or panicked the channel it sends on has room, whether
\* the caller is still in its select or has returned, and the goroutine then
\* ends.
C31_NoTaskLeak ==
    /\ [](\A i \in TaskIds : Sending(i) => ENABLED TaskSend(i))
    /\ \A i \in TaskIds : Sending(i) ~> (tasks[i].g = "done")

\* the caller returned on the deadline, the function returned later and the
\* goroutine is over, its result left in the buffer
C31_Witness ==
    \E i \in TaskIds :
        /\ tasks[i].how = "deadline"
        /\ tasks[i].g = "done"
        /\ Len(tasks[i].resCh) = 1

\* the positions of an execution whose wrapped run has returned or panicked
AfterRunPcs ==
    {"x_recorded", "fallback_select", "rec_fallback_success", "rec_fallback_failure",
     "x_fallback_recorded"}

\* C32: an execution that Allow admitted calls at most one of Success, Failure
\* and Timeout, and exactly one by the time the wrapped run is over; the call
\* is Success iff the run phase yields run's value with a nil error, Timeout
\* iff it yields ErrTimeout, and Failure iff run returned an error or panicked
\* or the caller's context was cancelled; an execution that was not admitted
\* calls none.
C32_OneOutcome ==
    \A c \in Callers :
        ex[c].active =>
            /\ Len(OutcomeCalls(c)) <= 1
            /\ ~ex[c].admitted => OutcomeCalls(c) = <<>>
            /\ (ex[c].admitted /\ cs[c].pc \in AfterRunPcs) => Len(OutcomeCalls(c)) = 1
            /\ cs[c].pc = "x_recorded" =>
                  LET res == ex[c].res
                  IN /\ OutcomeCalls(c) = <<"Success">> <=>
                            (res.kind = "return" /\ res.err = NoErr /\ res = ex[c].runOut)
                     /\ OutcomeCalls(c) = <<"Timeout">> <=>
                            (res.kind = "return" /\ "ErrTimeout" \in res.err.is)
                     /\ OutcomeCalls(c) = <<"Failure">> <=>
                            \/ res.kind = "return" /\ res = ex[c].runOut /\ res.err # NoErr
                            \/ res.kind = "panic"
                            \/ ex[c].how = "cancel" /\ "Canceled" \in res.err.is
                     /\ OutcomeEvents(c) =
                            [i \in 1..1 |->
                                CASE OutcomeCalls(c)[i] = "Success" -> "success"
                                  [] OutcomeCalls(c)[i] = "Timeout" -> "timeout"
                                  [] OTHER -> "failure"]

\* a caller whose context was cancelled while run was running has recorded a
\* Failure and is about to get the context's error
C32_Witness ==
    \E c \in Callers :
        /\ cs[c].pc = "x_recorded" /\ ex[c].how = "cancel"
        /\ OutcomeCalls(c) = <<"Failure">>
        /\ ex[c].res = Ret(Nil, Errorf(name, Canceled))

SumPcs == {"sum_wait", "sum_switch", "sum_cas_open", "sum_cas_half"}

\* c takes a step of CutBreaker.Summary
SummaryOpStep(c) == (cs[c].pc \in SumPcs \/ cs'[c].pc \in SumPcs) /\ cs'[c] # cs[c]

\* C33: CutBreaker.Summary is a read-only snapshot: no step of it changes the
\* status word, so it never takes the Open -> HalfOpen swap that admits the
\* probe.
C33_Step == \A c \in Callers : SummaryOpStep(c) => internalStatus' = internalStatus

C33_SummaryReadOnly == [][C33_Step]_vars

\* the callers that Allow admitted as the half-open probe and whose Success,
\* Failure or Timeout has not reached its swap of the status yet
Probes ==
    {c \in Callers : /\ cs[c].pass /\ cs[c].msg = "half-open"
                     /\ cs[c].pc \in {"idle", "succ_reset", "succ_cas"}}

\* C34: whenever the status is HalfOpen exactly one admitted call, the probe,
\* has its outcome still to record.
C34_OneProbe == internalStatus = HalfOpening => Cardinality(Probes) = 1

\* c, admitted while the breaker was Closed, takes a step of Success, Failure
\* or Timeout while the status is HalfOpen
StaleRecords(c) ==
    /\ cs[c].pass /\ cs[c].msg = "closed"
    /\ internalStatus = HalfOpening
    /\ cs'[c] # cs[c]

\* C35: only the probe decides the outcome of HalfOpen: the Success, Failure
\* or Timeout of a call admitted before the breaker opened changes neither
\* the status nor the reset channel of the Metric.
C35_Step ==
    \A c \in Callers :
        StaleRecords(c) =>
            /\ internalStatus' = internalStatus
            /\ chans'["reset"] = chans["reset"]

C35_OnlyProbeDecides == [][C35_Step]_vars

\* C36: when the breaker is Open and sleepWindow has passed since it opened,
\* and the callers of a Command with a fallback keep calling, a call is
\* eventually admitted as the half-open probe.
C36_Recovers ==
    (open.status = Openning /\ open.sinceOpen >= sleepWindow)
        ~> (\E c \in Callers : open.cl[c].pc = "probe")

\* C37: with several callers inside Metric.Summary at a time, the summary a
\* call returns was computed by the aggregator after the call began: it was not
\* already waiting in getSummaryCh when the caller sent its request.
C37_Step ==
    \A c \in Callers :
        (producers[c].pc = "summary" /\ producers'[c].pc = "idle") =>
            producers[c].before = 0

C37_FreshSummary == [][C37_Step]_vars

\* the pcs at which a caller is about to run the swap old -> new
SwapPcs(old, new) ==
    CASE old = Closed /\ new = Openning -> {"allow_cas_open"}
      [] old = Openning /\ new = HalfOpening -> {"allow_cas_half"}
      [] old = HalfOpening /\ new = Closed -> {"succ_cas"}
      [] old = HalfOpening /\ new = Openning -> {"rec_failure", "rec_timeout"}
      [] OTHER -> {}

\* C38: the status word is Closed, Open or HalfOpen; it changes only along
\* Closed -> Open, Open -> HalfOpen, HalfOpen -> Closed and HalfOpen -> Open,
\* and only in the step of a caller that runs the swap of that edge; the steps
\* of FallbackSuccess and FallbackFailure leave it as it is.
C38_Step ==
    /\ internalStatus' \in {Closed, Openning, HalfOpening}
    /\ internalStatus' # internalStatus =>
          \E c \in Callers : /\ cs[c].pc \in SwapPcs(internalStatus, internalStatus')
                             /\ cs'[c].pc # cs[c].pc
    /\ \A c \in Callers :
          (/\ cs[c].pc \in {"rec_fallback_success", "rec_fallback_failure"}
           /\ cs'[c].pc # cs[c].pc) => internalStatus' = internalStatus

C38_StatusEdges == [][C38_Step]_vars

\* a fallback has been recorded and a probe has sent the breaker from HalfOpen
\* back to Open, after Closed -> Open and Open -> HalfOpen
C38_Witness ==
    /\ internalStatus = Openning
    /\ \E c \in Callers : cs[c].pc = "x_fallback_recorded"
    /\ \E c \in Callers : cs[c].prev = "halfOpenFailure"

WindowInRange(window) ==
    /\ window.nsec = 0
    /\ ~DurLess(window, Second)
    /\ ~DurLess(Minute, window)

\* C40: a breaker made without options is constructed and owns a Metric whose
\* window is a whole number of seconds in range and whose ring is not empty; a
\* window out of range makes the construction fail.
C40_DefaultsConstruct ==
    built.metric.option = "WithMetricCounterSize" =>
        /\ built.defaults =>
              /\ ~built.metric.panicked
              /\ WindowInRange(built.metric.timeWindow)
              /\ built.metric.ring > 0
        /\ ~WindowInRange(built.metric.timeWindow) => built.metric.panicked

====
